---- MODULE Spec2Model ----
(***************************************************************************)
(* A model of the batch ETL pipeline of python-logging-mastery:            *)
(*   main.py            run_pipeline      (the orchestrator)               *)
(*   etl/extractor.py   extract_csv, extract_json, extract_from_api,       *)
(*                      run_extraction                                     *)
(*   etl/transformer.py validate_row, check_duplicates, detect_anomalies,  *)
(*                      enrich_with_products, run_transformation           *)
(*   etl/loader.py      create_database, load_batch,                       *)
(*                      simulate_connection_issue, run_loading             *)
(*                                                                         *)
(* Text read from a file is a sequence of one-character strings, so that   *)
(* int() and float() are modelled by what they do to the characters.       *)
(* Python's None is the sentinel NONE.  Floats are fixed-point numbers in  *)
(* thousandths (1.5 is 1500).  The log is modelled where a property is     *)
(* about what is reported.                                                 *)
(***************************************************************************)
EXTENDS Integers, Sequences, FiniteSets, TLC

VARIABLES
    \* ---- the environment: the files and the store before the run
    csv_file,        \* data/sales_data.csv
    json_file,       \* data/products.json
    db0,             \* the committed content of clean_sales before the run
    \* ---- main.py, run_pipeline
    pc,              \* the position of the run
    stats,           \* the stats dict
    started,         \* the stages started so far, in order
    cleaned_rows,    \* the value returned by run_transformation
    \* ---- extractor.py
    results,         \* run_extraction's results dict
    read_log,        \* the sources read so far, in order, with their outcome
    max_retries,     \* extract_from_api's max_retries
    attempt,         \* the loop variable of extract_from_api
    api_log,         \* what extract_from_api logged and slept, in order
    api_ret,         \* extract_from_api's return value, [] before it returns
    \* ---- loader.py
    db,              \* committed content of clean_sales: order_id -> stored row
    txn,             \* rows inserted by the open transaction, not yet committed
    conn,            \* "none", "open", "closed"
    batches,         \* run_loading's batches
    batch_num,       \* the loop variable of run_loading
    total_inserted,
    total_skipped,
    load_log,        \* database operations and logged events of run_loading
    load_in,         \* the list run_loading was called with
    load_ret,        \* run_loading's return value, (0, 0) before it returns
    \* ---- check_duplicates applied on its own
    dd_rows,         \* the input list
    dd_once,         \* the outcome of check_duplicates(dd_rows)
    dd_twice,        \* check_duplicates of the rows of dd_once
    \* ---- validate_row and detect_anomalies applied on their own
    v_row,           \* the raw row
    v_out,           \* the outcome of validate_row(v_row, 1)
    v_alerts,        \* detect_anomalies of the cleaned row
    \* ---- run_transformation applied on its own
    t_in,            \* the extracted_data mapping
    t_out,           \* the outcome of run_transformation(t_in)
    \* ---- run_loading called a second time with the same list
    l_run,           \* 1 during the first call, 2 during the second
    l_first          \* the outcome of the first call

vars == << csv_file, json_file, db0, pc, stats, started, cleaned_rows,
           results, read_log, max_retries, attempt, api_log, api_ret,
           db, txn, conn, batches, batch_num, total_inserted, total_skipped,
           load_log, load_in, load_ret, dd_rows, dd_once, dd_twice,
           v_row, v_out, v_alerts, t_in, t_out, l_run, l_first >>

env_vars == << csv_file, json_file, db0 >>
main_vars == << pc, stats, started, cleaned_rows >>
extract_vars == << results, read_log >>
api_vars == << max_retries, attempt, api_log, api_ret >>
load_vars == << db, txn, conn, batches, batch_num, total_inserted,
                total_skipped, load_log, load_in, load_ret >>
dd_vars == << dd_rows, dd_once, dd_twice >>
val_vars == << v_row, v_out, v_alerts >>
tr_vars == << t_in, t_out >>
again_vars == << l_run, l_first >>

----------------------------------------------------------------------------
(* Bounds of the model *)

MaxRows == 2
MaxRetriesBound == 4
MaxLoadRows == 21
MaxDedupeLen == 4
MaxTransformRows == 3

----------------------------------------------------------------------------
(* Values *)

\* Python's None (a cell DictReader could not fill, dict.get of a missing key).
NONE == << "<None>" >>

\* A file that does not exist (os.path.exists is False).
NOT_FOUND ==
    [ exists |-> FALSE, valid |-> FALSE, object |-> FALSE, keys |-> {},
      lines |-> << >> ]

\* A file that exists and is not valid JSON (json.load raises JSONDecodeError).
MALFORMED ==
    [ exists |-> TRUE, valid |-> FALSE, object |-> FALSE, keys |-> {},
      lines |-> << >> ]

\* A file that holds valid JSON whose top level is an array and not an object
\* (json.load returns a list).
JSON_ARRAY ==
    [ exists |-> TRUE, valid |-> TRUE, object |-> FALSE, keys |-> {},
      lines |-> << >> ]

\* A CSV file with this header and these lines; a JSON file holding an object
\* with these keys, where lines is the value of its key "products".
File(keys, lines) ==
    [ exists |-> TRUE, valid |-> TRUE, object |-> TRUE, keys |-> keys,
      lines |-> lines ]

Range(s) == { s[i] : i \in 1..Len(s) }

\* Python's truth value of a cell: None and "" are falsy.
Truthy(v) == v # NONE /\ v # << >>

\* dict.get(key): the value, or None when the key is missing.
Get(row, key) == IF key \in DOMAIN row THEN row[key] ELSE NONE

\* d | {key: val} : the dict with key set to val (added when missing).
Put(row, key, val) ==
    [ k \in (DOMAIN row) \cup {key} |-> IF k = key THEN val ELSE row[k] ]

----------------------------------------------------------------------------
(* etl/extractor.py *)

\* extract_csv(file_path): the rows of the file, [] when it does not exist.
\* (The staleness warning of lines 49-56 changes no value and is left out.)
extract_csv(file) ==
    IF ~file.exists
    THEN [ ret |-> << >>, outcome |-> "not_found" ]
    ELSE [ ret |-> file.lines, outcome |-> "ok" ]

\* extract_json(file_path, key): data[key], [] when the file does not exist,
\* is not valid JSON, or holds no such key.  When data is a list, key is not
\* in it and the message of line 98 calls data.keys(): AttributeError leaves
\* the function (outcome "raised").
extract_json(file, key) ==
    IF ~file.exists
    THEN [ ret |-> << >>, outcome |-> "not_found" ]
    ELSE IF ~file.valid
    THEN [ ret |-> << >>, outcome |-> "parse_error" ]
    ELSE IF ~file.object
    THEN [ ret |-> << >>, outcome |-> "raised" ]
    ELSE IF key \notin file.keys
    THEN [ ret |-> << >>, outcome |-> "missing_key" ]
    ELSE [ ret |-> file.lines, outcome |-> "ok" ]

\* The default of extract_from_api's max_retries; run_extraction passes none.
DEFAULT_MAX_RETRIES == 3

\* The outcomes of random.choice([200, 200, 503, 500, 200]).
SimulatedStatuses == { 200, 503, 500 }

\* The simulated data of a 200 answer (amount in hundredths).
ApiRecords ==
    << [ source |-> "api", order_id |-> "API-001", amount |-> 15000 ],
       [ source |-> "api", order_id |-> "API-002", amount |-> 7550 ] >>

\* wait_time = 2 ** attempt
RECURSIVE Pow2(_)
Pow2(n) == IF n = 0 THEN 1 ELSE 2 * Pow2(n - 1)

wait_time(a) == Pow2(a)

\* time.sleep(0.1): the time slept between two attempts, in tenths of a second.
SLEEP_TENTHS == 1

Ev(level, a, arg) == [ level |-> level, attempt |-> a, arg |-> arg ]

\* A failed attempt that logs the critical message whether or not attempts are
\* left.
FailureEventsAllCritical(a, status, maxr) ==
    << Ev("error", a, status), Ev("critical", a, maxr) >> \o
    ( IF a < maxr
      THEN << Ev("warning", a, wait_time(a)), Ev("sleep", a, SLEEP_TENTHS) >>
      ELSE << >> )

\* What one failed attempt logs and sleeps: the error, then either the retry
\* warning and the sleep (attempt < max_retries) or the critical message.
FailureEvents(a, status, maxr) ==
    << Ev("error", a, status) >> \o
    ( IF a < maxr
      THEN << Ev("warning", a, wait_time(a)), Ev("sleep", a, SLEEP_TENTHS) >>
      ELSE << Ev("critical", a, maxr) >> )

\* range(1, max_retries + 2): one attempt too many.
AttemptRangeOneMore(maxr) == 1..(maxr + 1)

\* range(1, max_retries + 1): the attempts of the for loop.
AttemptRange(maxr) == 1..maxr

\* One iteration of the for loop of extract_from_api (lines 123-153).
ApiAttempt ==
    /\ pc = "api_loop"
    /\ attempt \in AttemptRange(max_retries)
    /\ \E status \in SimulatedStatuses :
         IF status = 200
         THEN /\ api_log' = api_log \o << Ev("debug", attempt, max_retries),
                                          Ev("info", attempt, 200) >>
              /\ api_ret' = ApiRecords
              /\ pc' = "api_done"
              /\ UNCHANGED attempt
         ELSE /\ api_log' = api_log \o << Ev("debug", attempt, max_retries) >>
                                    \o FailureEvents(attempt, status, max_retries)
              /\ attempt' = attempt + 1
              /\ UNCHANGED << api_ret, pc >>
    /\ UNCHANGED << env_vars, stats, started, cleaned_rows, extract_vars,
                    max_retries, load_vars, dd_vars, val_vars, tr_vars, again_vars >>

\* The loop ran out of attempts: return [] (line 155).
ApiExhausted ==
    /\ pc = "api_loop"
    /\ attempt \notin AttemptRange(max_retries)
    /\ api_ret' = << >>
    /\ pc' = "api_done"
    /\ UNCHANGED << env_vars, stats, started, cleaned_rows, extract_vars,
                    max_retries, attempt, api_log, load_vars, dd_vars, val_vars, tr_vars, again_vars >>

\* An except block that records the stage without counting the error.
StageFailedUncounted(st, stage) == [ st EXCEPT !.phase_failed = stage ]

\* The except block of a stage in run_pipeline (main.py, lines 78-84, 92-97,
\* 106-111).
StageFailed(st, stage) ==
    [ st EXCEPT !.phase_failed = stage, !.errors = @ + 1 ]

SourceRead(name, outcome, n) == [ source |-> name, outcome |-> outcome, n |-> n ]

\* run_extraction, lines 168-175: results["sales_data"] = extract_csv(csv_path)
ExtractCsv ==
    /\ pc = "x_csv"
    /\ LET r == extract_csv(csv_file) IN
         /\ results' = [ results EXCEPT !.sales_data = r.ret ]
         /\ read_log' = Append(read_log, SourceRead("sales_data", r.outcome, Len(r.ret)))
    /\ pc' = "x_json"
    /\ UNCHANGED << env_vars, stats, started, cleaned_rows, api_vars,
                    load_vars, dd_vars, val_vars, tr_vars, again_vars >>

\* run_extraction, line 178: results["product_catalog"] = extract_json(json_path).
\* An exception of extract_json leaves run_extraction and is caught by
\* run_pipeline (main.py, lines 78-84).
ExtractJson ==
    /\ pc = "x_json"
    /\ LET r == extract_json(json_file, "products") IN
         /\ read_log' = Append(read_log, SourceRead("product_catalog", r.outcome, Len(r.ret)))
         /\ IF r.outcome = "raised"
            THEN /\ stats' = StageFailed(stats, "extraction")
                 /\ pc' = "failed"
                 /\ UNCHANGED results
            ELSE /\ results' = [ results EXCEPT !.product_catalog = r.ret ]
                 /\ pc' = "api_loop"
                 /\ UNCHANGED stats
    /\ attempt' = 1
    /\ UNCHANGED << env_vars, started, cleaned_rows, max_retries,
                    api_log, api_ret, load_vars, dd_vars, val_vars, tr_vars, again_vars >>

\* run_extraction, line 181: results["api_data"] = extract_from_api()
ExtractApiReturn ==
    /\ pc = "api_done"
    /\ results' = [ results EXCEPT !.api_data = api_ret ]
    /\ read_log' = Append(read_log,
           SourceRead("api_data", IF api_ret = << >> THEN "exhausted" ELSE "ok",
                      Len(api_ret)))
    /\ pc' = "x_end"
    /\ UNCHANGED << env_vars, stats, started, cleaned_rows, api_vars,
                    load_vars, dd_vars, val_vars, tr_vars, again_vars >>

\* run_extraction, lines 183-197: the total, and the check of the primary
\* source; TRUE when RuntimeError("Extraction failed: no sales data") is raised.
total_records(res) ==
    Len(res.sales_data) + Len(res.product_catalog) + Len(res.api_data)

\* A check at the end of run_extraction that also fails without API records.
extraction_raises_without_api(res) == res.sales_data = << >> \/ res.api_data = << >>

extraction_raises(res) == res.sales_data = << >>

----------------------------------------------------------------------------
(* Python's int(), float() and round() on text and fixed-point numbers *)

Digits == { "0", "1", "2", "3", "4", "5", "6", "7", "8", "9" }

DigitVal(c) ==
    CASE c = "0" -> 0 [] c = "1" -> 1 [] c = "2" -> 2 [] c = "3" -> 3
      [] c = "4" -> 4 [] c = "5" -> 5 [] c = "6" -> 6 [] c = "7" -> 7
      [] c = "8" -> 8 [] c = "9" -> 9

RECURSIVE LStrip(_)
LStrip(s) == IF s # << >> /\ Head(s) = " " THEN LStrip(Tail(s)) ELSE s

RECURSIVE RStrip(_)
RStrip(s) ==
    IF s # << >> /\ s[Len(s)] = " " THEN RStrip(SubSeq(s, 1, Len(s) - 1)) ELSE s

\* str.strip(): int() and float() ignore surrounding white space.
Strip(s) == RStrip(LStrip(s))

AllDigits(s) == \A i \in 1..Len(s) : s[i] \in Digits

\* The value of a string of digits.
RECURSIVE DigitsVal(_)
DigitsVal(s) ==
    IF s = << >> THEN 0
    ELSE 10 * DigitsVal(SubSeq(s, 1, Len(s) - 1)) + DigitVal(s[Len(s)])

HasSign(t) == t # << >> /\ Head(t) \in { "+", "-" }
Unsigned(t) == IF HasSign(t) THEN Tail(t) ELSE t
SignOf(t) == IF t # << >> /\ Head(t) = "-" THEN -1 ELSE 1

\* int(x) raises TypeError for None and ValueError for text that is not an
\* optional sign followed by digits.
IntRaises(x) ==
    \/ x = NONE
    \/ LET t == Strip(x) IN Unsigned(t) = << >> \/ ~AllDigits(Unsigned(t))

IntOf(x) == LET t == Strip(x) IN SignOf(t) * DigitsVal(Unsigned(t))

\* The text before the first "." of u, and the text after it.
RECURSIVE IntPart(_)
IntPart(u) ==
    IF u = << >> \/ Head(u) = "." THEN << >>
    ELSE << Head(u) >> \o IntPart(Tail(u))

FracPart(u) == SubSeq(u, Len(IntPart(u)) + 2, Len(u))

\* The floats that are no number of the model: float("nan") and float("inf"),
\* kept apart from every value a text of digits can have.
NAN == -2000000000
INF == 2000000000

\* float() accepts the words nan and inf (a piece of text each), signed or not.
SpecialFloat(u) == u \in { << "nan" >>, << "inf" >> }

\* float(x) raises TypeError for None and ValueError for text that is neither
\* nan or inf nor an optional sign, digits, and optionally a point and digits
\* (one digit at least).  Exponents and underscores are not among the texts of
\* the model.
FloatRaises(x) ==
    \/ x = NONE
    \/ LET u == Unsigned(Strip(x)) IN
         /\ ~SpecialFloat(u)
         /\ \/ ~AllDigits(IntPart(u))
            \/ ~AllDigits(FracPart(u))
            \/ Len(IntPart(u)) + Len(FracPart(u)) = 0

\* The first three decimals of a fraction, in thousandths.
FracThousandths(f) ==
    DigitsVal(SubSeq(f \o << "0", "0", "0" >>, 1, 3))

\* float(x) in thousandths.
FloatOf(x) ==
    LET t == Strip(x)
        u == Unsigned(t)
    IN IF u = << "nan" >> THEN NAN
       ELSE IF u = << "inf" >> THEN SignOf(t) * INF
       ELSE SignOf(t) * (1000 * DigitsVal(IntPart(u)) + FracThousandths(FracPart(u)))

\* a < b on floats: FALSE when one of them is nan.
FLess(a, b) == a # NAN /\ b # NAN /\ a < b

\* n * x for an int n and a float x.
FMul(n, x) ==
    IF x = NAN \/ (n = 0 /\ x \in { INF, -INF }) THEN NAN
    ELSE IF x \in { INF, -INF } THEN (IF n < 0 THEN -x ELSE x)
    ELSE n * x

\* round(x, 2) of a number in thousandths: to the nearest hundredth, a tie
\* to the even hundredth; nan and inf are returned as they are.
Round2(x) ==
    LET a == IF x < 0 THEN -x ELSE x
        q == a \div 10
        r == a % 10
        up == r > 5 \/ (r = 5 /\ q % 2 = 1)
        m == 10 * (IF up THEN q + 1 ELSE q)
    IN IF x \in { NAN, INF, -INF } THEN x
       ELSE IF x < 0 THEN -m ELSE m

----------------------------------------------------------------------------
(* datetime.strptime and strftime for the formats of validate_row *)

\* The fields of s between the separators sep (one field when there is none).
RECURSIVE Split(_, _)
Split(s, sep) ==
    IF s = << >> THEN << << >> >>
    ELSE LET rest == Split(Tail(s), sep) IN
         IF Head(s) = sep THEN << << >> >> \o rest
         ELSE << << Head(s) >> \o Head(rest) >> \o Tail(rest)

\* %b: a month's abbreviated name, one piece of the text.
MonthAbbr ==
    << "Jan", "Feb", "Mar", "Apr", "May", "Jun",
       "Jul", "Aug", "Sep", "Oct", "Nov", "Dec" >>

IsLeap(y) == (y % 4 = 0 /\ y % 100 # 0) \/ y % 400 = 0

DaysIn(y, m) ==
    IF m = 2 THEN (IF IsLeap(y) THEN 29 ELSE 28)
    ELSE IF m \in { 4, 6, 9, 11 } THEN 30 ELSE 31

\* A field matches the directive d: %Y is four digits, %m and %d are one or two
\* digits of a value in range, %b is a month's name.
FieldOk(f, d) ==
    CASE d = "Y" -> Len(f) = 4 /\ AllDigits(f) /\ DigitsVal(f) >= 1
      [] d = "m" -> Len(f) \in 1..2 /\ AllDigits(f) /\ DigitsVal(f) \in 1..12
      [] d = "d" -> Len(f) \in 1..2 /\ AllDigits(f) /\ DigitsVal(f) \in 1..31
      [] d = "b" -> Len(f) = 1 /\ f[1] \in Range(MonthAbbr)

FieldVal(f, d) ==
    IF d = "b" THEN CHOOSE m \in 1..12 : MonthAbbr[m] = f[1] ELSE DigitsVal(f)

\* The four formats of date_formats, in its order: the separator and the
\* directives.
date_formats ==
    << [ sep |-> "-", dirs |-> << "Y", "m", "d" >> ],
       [ sep |-> "/", dirs |-> << "d", "m", "Y" >> ],
       [ sep |-> "-", dirs |-> << "m", "d", "Y" >> ],
       [ sep |-> " ", dirs |-> << "b", "d", "Y" >> ] >>

\* The place of the directive d in the format.
DirAt(fmt, d) == IF fmt.dirs[1] = d THEN 1 ELSE IF fmt.dirs[2] = d THEN 2 ELSE 3

MonthDir(fmt) == IF fmt.dirs[1] = "b" THEN "b" ELSE "m"

\* The date of the fields fs read by the format, as [y, m, d].
FieldsDate(fs, fmt) ==
    [ y |-> FieldVal(fs[DirAt(fmt, "Y")], "Y"),
      m |-> FieldVal(fs[DirAt(fmt, MonthDir(fmt))], MonthDir(fmt)),
      d |-> FieldVal(fs[DirAt(fmt, "d")], "d") ]

\* The date strptime(x, fmt) returns.
Parsed(x, fmt) == FieldsDate(Split(x, fmt.sep), fmt)

\* Parses is FALSE where strptime(x, fmt) raises ValueError (no match, or no
\* such day) or TypeError (None).
Parses(x, fmt) ==
    /\ x # NONE
    /\ LET fs == Split(x, fmt.sep) IN
         /\ Len(fs) = 3
         /\ \A i \in 1..3 : FieldOk(fs[i], fmt.dirs[i])
         /\ LET dt == FieldsDate(fs, fmt) IN dt.d <= DaysIn(dt.y, dt.m)

DigitChar(n) ==
    CHOOSE c \in Digits : DigitVal(c) = n

\* n written with w digits, zero-padded.
RECURSIVE Padded(_, _)
Padded(n, w) ==
    IF w = 0 THEN << >> ELSE Padded(n \div 10, w - 1) \o << DigitChar(n % 10) >>

\* strftime("%Y-%m-%d")
strftime(dt) ==
    Padded(dt.y, 4) \o << "-" >> \o Padded(dt.m, 2) \o << "-" >> \o Padded(dt.d, 2)

\* The first format of date_formats from the i-th on that parses x, 0 when
\* none does: the loop of lines 99-104.
RECURSIVE FirstFormatFrom(_, _)
FirstFormatFrom(x, i) ==
    IF i > Len(date_formats) THEN 0
    ELSE IF Parses(x, date_formats[i]) THEN i
    ELSE FirstFormatFrom(x, i + 1)

FirstFormat(x) == FirstFormatFrom(x, 1)

----------------------------------------------------------------------------
(* etl/transformer.py *)

\* Thresholds for anomaly detection (the value threshold in thousandths).
HIGH_VALUE_ORDER_THRESHOLD == 500000
HIGH_QUANTITY_THRESHOLD == 20
LOW_STOCK_THRESHOLD == 10

PLACEHOLDER_EMAIL == << "unknown@placeholder.com" >>

Rejected(reason) ==
    [ exc |-> "none", ok |-> FALSE, cleaned |-> << >>, issues |-> << reason >> ]

\* row["key"] of a missing key: KeyError, which validate_row does not catch.
KeyErrorRaised ==
    [ exc |-> "KeyError", ok |-> FALSE, cleaned |-> << >>, issues |-> << >> ]

\* A quantity block that corrects negative quantities only.
CleanQuantityNegativeOnly(row) ==
    LET q == IntOf(row["quantity"]) IN
    IF q < 0 THEN [ quantity |-> 1, issues |-> << "invalid_quantity" >> ]
    ELSE [ quantity |-> q, issues |-> << >> ]

\* The quantity block, lines 55-70: the cleaned quantity and its issues.
CleanQuantity(row) ==
    LET q == IntOf(row["quantity"]) IN
    IF q <= 0 THEN [ quantity |-> 1, issues |-> << "invalid_quantity" >> ]
    ELSE [ quantity |-> q, issues |-> << >> ]

\* The unit_price block, lines 73-94: the cleaned price and its issues.
CleanPrice(row) ==
    LET price == IF Truthy(Get(row, "unit_price"))
                 THEN FloatOf(row["unit_price"]) ELSE 0
    IN IF FLess(price, 0) THEN [ unit_price |-> 0, issues |-> << "negative_price" >> ]
       ELSE IF price = 0 THEN [ unit_price |-> 0, issues |-> << "zero_price" >> ]
       ELSE [ unit_price |-> price, issues |-> << >> ]

\* The email block, lines 49-52.
EmailIssues(row) ==
    IF Truthy(Get(row, "email")) THEN << >> ELSE << "missing_email" >>

\* A cleaned row whose total is computed from the quantity as it was read.
CleanedTotalOfRawQuantity(row) ==
    LET c1 == IF Truthy(Get(row, "email")) THEN row
              ELSE Put(row, "email", PLACEHOLDER_EMAIL)
        q == CleanQuantity(row).quantity
        p == CleanPrice(row).unit_price
        c2 == Put(Put(c1, "quantity", q), "unit_price", p)
        c3 == Put(c2, "order_date",
                  strftime(Parsed(row["order_date"],
                                  date_formats[FirstFormat(row["order_date"])])))
    IN Put(c3, "total", Round2(FMul(IntOf(row["quantity"]), p)))

\* The cleaned row of a row that passed every check, lines 37-119.
Cleaned(row) ==
    LET c1 == IF Truthy(Get(row, "email")) THEN row
              ELSE Put(row, "email", PLACEHOLDER_EMAIL)
        q == CleanQuantity(row).quantity
        p == CleanPrice(row).unit_price
        c2 == Put(Put(c1, "quantity", q), "unit_price", p)
        c3 == Put(c2, "order_date",
                  strftime(Parsed(row["order_date"],
                                  date_formats[FirstFormat(row["order_date"])])))
    IN Put(c3, "total", Round2(FMul(q, p)))

\* A validate_row that checks product_id before order_id.
validate_row_product_first(row, row_num) ==
    IF ~Truthy(Get(row, "product_id")) THEN Rejected("missing_product_id")
    ELSE IF ~Truthy(Get(row, "order_id")) THEN Rejected("missing_order_id")
    ELSE IF "quantity" \notin DOMAIN row THEN KeyErrorRaised
    ELSE IF IntRaises(row["quantity"]) THEN Rejected("invalid_quantity_type")
    ELSE IF Truthy(Get(row, "unit_price")) /\ FloatRaises(row["unit_price"])
         THEN Rejected("invalid_price_type")
    ELSE IF "order_date" \notin DOMAIN row THEN KeyErrorRaised
    ELSE IF FirstFormat(row["order_date"]) = 0 THEN Rejected("unparseable_date")
    ELSE [ exc |-> "none", ok |-> TRUE, cleaned |-> Cleaned(row),
           issues |-> EmailIssues(row) \o CleanQuantity(row).issues
                        \o CleanPrice(row).issues ]

\* validate_row(row, row_num): (is_valid, cleaned_row, issues), or KeyError.
validate_row(row, row_num) ==
    IF ~Truthy(Get(row, "order_id")) THEN Rejected("missing_order_id")
    ELSE IF ~Truthy(Get(row, "product_id")) THEN Rejected("missing_product_id")
    ELSE IF "quantity" \notin DOMAIN row THEN KeyErrorRaised
    ELSE IF IntRaises(row["quantity"]) THEN Rejected("invalid_quantity_type")
    ELSE IF Truthy(Get(row, "unit_price")) /\ FloatRaises(row["unit_price"])
         THEN Rejected("invalid_price_type")
    ELSE IF "order_date" \notin DOMAIN row THEN KeyErrorRaised
    ELSE IF FirstFormat(row["order_date"]) = 0 THEN Rejected("unparseable_date")
    ELSE [ exc |-> "none", ok |-> TRUE, cleaned |-> Cleaned(row),
           issues |-> EmailIssues(row) \o CleanQuantity(row).issues
                        \o CleanPrice(row).issues ]

\* A detect_anomalies whose thresholds are not strict.
detect_anomalies_at_threshold(row, row_num) ==
    ( IF ~FLess(row["total"], HIGH_VALUE_ORDER_THRESHOLD) /\ row["total"] # NAN
      THEN << "high_value" >> ELSE << >> ) \o
    ( IF row["quantity"] >= HIGH_QUANTITY_THRESHOLD
      THEN << "high_quantity" >> ELSE << >> )

\* detect_anomalies(row, row_num): the alerts of a cleaned row.
detect_anomalies(row, row_num) ==
    ( IF FLess(HIGH_VALUE_ORDER_THRESHOLD, row["total"])
      THEN << "high_value" >> ELSE << >> ) \o
    ( IF row["quantity"] > HIGH_QUANTITY_THRESHOLD
      THEN << "high_quantity" >> ELSE << >> )

\* product_lookup = {p["product_id"]: p for p in product_catalog}: the last
\* entry of an id wins.
InCatalog(catalog, pid) == \E i \in 1..Len(catalog) : catalog[i].product_id = pid

product_lookup(catalog, pid) ==
    catalog[CHOOSE i \in 1..Len(catalog) :
               /\ catalog[i].product_id = pid
               /\ \A j \in (i + 1)..Len(catalog) : catalog[j].product_id # pid]

\* A loop body that also marks the record of a product with a low stock.
EnrichRowMarksLowStock(row, catalog) ==
    IF InCatalog(catalog, row["product_id"])
    THEN LET product == product_lookup(catalog, row["product_id"])
             enriched == Put(Put(Put(row, "product_name", product.name),
                                 "category", product.category),
                             "current_stock", product.stock)
         IN IF product.stock < LOW_STOCK_THRESHOLD
            THEN Put(enriched, "anomaly_flags",
                     Append(Get(row, "anomaly_flags"), "low_stock"))
            ELSE enriched
    ELSE Put(Put(Put(row, "product_name", << "UNKNOWN" >>),
                 "category", << "UNKNOWN" >>),
             "current_stock", -1)

\* The body of the loop of enrich_with_products for one row.
EnrichRow(row, catalog) ==
    IF InCatalog(catalog, row["product_id"])
    THEN LET product == product_lookup(catalog, row["product_id"]) IN
         Put(Put(Put(row, "product_name", product.name),
                 "category", product.category),
             "current_stock", product.stock)
    ELSE Put(Put(Put(row, "product_name", << "UNKNOWN" >>),
                 "category", << "UNKNOWN" >>),
             "current_stock", -1)

\* An enrich_with_products that reports a missing product at every row of it.
enrich_with_products_reports_rows(rows, catalog) ==
    LET missing_rows == { k \in 1..Len(rows) : ~InCatalog(catalog, rows[k]["product_id"]) }
        low == { i \in 1..Len(rows) :
                   /\ InCatalog(catalog, rows[i]["product_id"])
                   /\ product_lookup(catalog, rows[i]["product_id"]).stock
                        < LOW_STOCK_THRESHOLD }
    IN [ enriched |-> [ i \in 1..Len(rows) |-> EnrichRow(rows[i], catalog) ],
         missing_products |-> { rows[i]["product_id"] : i \in missing_rows },
         low_stock_rows |-> low,
         missing_reports |-> Cardinality(missing_rows) ]

\* enrich_with_products(rows, product_catalog): the enriched rows, the set
\* missing_products, the low-stock warnings (one per row of a low product) and
\* the number of times the missing set is reported.
enrich_with_products(rows, catalog) ==
    LET missing == { rows[i]["product_id"] : i \in
                       { k \in 1..Len(rows) : ~InCatalog(catalog, rows[k]["product_id"]) } }
        low == { i \in 1..Len(rows) :
                   /\ InCatalog(catalog, rows[i]["product_id"])
                   /\ product_lookup(catalog, rows[i]["product_id"]).stock
                        < LOW_STOCK_THRESHOLD }
    IN [ enriched |-> [ i \in 1..Len(rows) |-> EnrichRow(rows[i], catalog) ],
         missing_products |-> missing,
         low_stock_rows |-> low,
         missing_reports |-> IF missing # {} THEN 1 ELSE 0 ]

\* A loop of check_duplicates that drops a repeated order_id without counting it.
RECURSIVE DedupeLoopUncounted(_)
DedupeLoopUncounted(rows) ==
    IF rows = << >> THEN [ unique_rows |-> << >>, duplicate_count |-> 0 ]
    ELSE LET before == DedupeLoopUncounted(SubSeq(rows, 1, Len(rows) - 1))
             row == rows[Len(rows)]
         IN IF \E i \in 1..Len(before.unique_rows) :
                  before.unique_rows[i]["order_id"] = row["order_id"]
            THEN before
            ELSE [ before EXCEPT !.unique_rows = Append(@, row) ]

\* A loop that keeps, at the place of the first row of an order, the last row
\* seen with that order_id.
RECURSIVE DedupeLoopKeepLast(_)
DedupeLoopKeepLast(rows) ==
    IF rows = << >> THEN [ unique_rows |-> << >>, duplicate_count |-> 0 ]
    ELSE LET before == DedupeLoopKeepLast(SubSeq(rows, 1, Len(rows) - 1))
             row == rows[Len(rows)]
             kept == before.unique_rows
         IN IF \E i \in 1..Len(kept) : kept[i]["order_id"] = row["order_id"]
            THEN [ unique_rows |->
                       [ i \in 1..Len(kept) |->
                           IF kept[i]["order_id"] = row["order_id"]
                           THEN row ELSE kept[i] ],
                   duplicate_count |-> before.duplicate_count + 1 ]
            ELSE [ before EXCEPT !.unique_rows = Append(@, row) ]

\* The loop of check_duplicates over the rows: unique_rows and duplicate_count.
RECURSIVE DedupeLoop(_)
DedupeLoop(rows) ==
    IF rows = << >> THEN [ unique_rows |-> << >>, duplicate_count |-> 0 ]
    ELSE LET before == DedupeLoop(SubSeq(rows, 1, Len(rows) - 1))
             row == rows[Len(rows)]
             seen == { before.unique_rows[i]["order_id"] :
                         i \in 1..Len(before.unique_rows) }
         IN IF row["order_id"] \in seen
            THEN [ before EXCEPT !.duplicate_count = @ + 1 ]
            ELSE [ before EXCEPT !.unique_rows = Append(@, row) ]

\* A check_duplicates that removes nothing.
check_duplicates_keeps_all(rows) ==
    [ unique_rows |-> rows, duplicate_count |-> 0, logged |-> "no_duplicates" ]

\* check_duplicates with a loop that starts at the second row.
check_duplicates_from_second(rows) ==
    LET r == DedupeLoop(IF rows = << >> THEN << >> ELSE Tail(rows)) IN
    [ unique_rows |-> r.unique_rows,
      duplicate_count |-> r.duplicate_count,
      logged |-> IF r.duplicate_count > 0 THEN "removed" ELSE "no_duplicates" ]

\* check_duplicates(rows): it returns unique_rows; duplicate_count is what it
\* logs ("Removed %d duplicate records" when positive, "No duplicates found"
\* otherwise).
check_duplicates(rows) ==
    LET r == DedupeLoop(rows) IN
    [ unique_rows |-> r.unique_rows,
      duplicate_count |-> r.duplicate_count,
      logged |-> IF r.duplicate_count > 0 THEN "removed" ELSE "no_duplicates" ]

\* A validation loop that also rejects a row whose order_id was seen in an
\* earlier raw row, accepted or not.
RECURSIVE ValidateAllOnceSeen(_, _)
ValidateAllOnceSeen(raw_rows, n) ==
    IF n = 0 THEN << >>
    ELSE Append(ValidateAllOnceSeen(raw_rows, n - 1),
                IF \E q \in 1..(n - 1) :
                      Get(raw_rows[q], "order_id") = Get(raw_rows[n], "order_id")
                THEN Rejected("missing_order_id")
                ELSE validate_row(raw_rows[n], n))

\* The outcomes of validate_row for rows 1..n, in order (the calls of the
\* loop of lines 247-257).
RECURSIVE ValidateAll(_, _)
ValidateAll(raw_rows, n) ==
    IF n = 0 THEN << >>
    ELSE Append(ValidateAll(raw_rows, n - 1), validate_row(raw_rows[n], n))

\* valid_rows after the validation loop over rows 1..n: the cleaned rows of the
\* valid ones, in order.
RECURSIVE ValidRows(_, _)
ValidRows(v, n) ==
    IF n = 0 THEN << >>
    ELSE IF v[n].ok THEN Append(ValidRows(v, n - 1), v[n].cleaned)
    ELSE ValidRows(v, n - 1)

\* Step 3 of run_transformation, lines 272-278: every row gets anomaly_flags.
FlagRow(row, i) == Put(row, "anomaly_flags", detect_anomalies(row, i))

\* run_transformation(extracted_data): the cleaned rows and the statistics it
\* accumulates, or the exception that leaves it (a source key missing from
\* extracted_data, or a KeyError of validate_row).
run_transformation(extracted_data) ==
    IF { "sales_data", "product_catalog" } \ DOMAIN extracted_data # {}
    THEN [ exc |-> "KeyError" ]
    ELSE
    LET raw_rows == extracted_data.sales_data
        product_catalog == extracted_data.product_catalog
        v == ValidateAll(raw_rows, Len(raw_rows))
        valid_rows == ValidRows(v, Len(raw_rows))
        issues == { x \in { "missing_email", "invalid_quantity",
                            "negative_price", "zero_price" } :
                      \E i \in 1..Len(raw_rows) : v[i].ok /\ x \in Range(v[i].issues) }
        dd == check_duplicates(valid_rows)
        flagged == [ i \in 1..Len(dd.unique_rows) |-> FlagRow(dd.unique_rows[i], i) ]
        en == enrich_with_products(flagged, product_catalog)
    IN IF \E i \in 1..Len(raw_rows) : v[i].exc # "none"
       THEN [ exc |-> "KeyError" ]
       ELSE [ exc |-> "none",
              rows |-> en.enriched,
              rows_in |-> Len(raw_rows),
              skipped_rows |-> Cardinality({ i \in 1..Len(raw_rows) : ~v[i].ok }),
              total_issues |-> [ x \in issues |->
                  Cardinality({ i \in 1..Len(raw_rows) :
                                  v[i].ok /\ x \in Range(v[i].issues) }) ],
              duplicate_count |-> dd.duplicate_count,
              anomaly_count |-> Cardinality({ i \in 1..Len(flagged) :
                                  flagged[i]["anomaly_flags"] # << >> }),
              missing_products |-> en.missing_products,
              missing_reports |-> en.missing_reports ]

----------------------------------------------------------------------------
(* main.py, run_pipeline: the extraction and transformation stages *)

InitialStats ==
    [ extracted |-> 0, transformed |-> 0, loaded |-> 0, skipped |-> 0,
      errors |-> 0, phase_failed |-> "None" ]

\* run_pipeline up to the call of run_extraction (lines 50-73), and
\* run_extraction up to its first read (lines 164-172).
StartExtraction ==
    /\ pc = "start"
    /\ pc' = "x_csv"
    /\ started' = Append(started, "extraction")
    /\ results' = [ sales_data |-> << >>, product_catalog |-> << >>,
                    api_data |-> << >> ]
    /\ UNCHANGED << env_vars, stats, cleaned_rows, read_log, api_vars,
                    load_vars, dd_vars, val_vars, tr_vars, again_vars >>

\* An except block without its return: the failure is recorded and the run
\* goes on to the next stage.
EndExtractionGoesOn ==
    /\ pc = "x_end"
    /\ stats' = IF extraction_raises(results)
                THEN StageFailed(stats, "extraction")
                ELSE [ stats EXCEPT !.extracted = Len(results.sales_data) ]
    /\ pc' = "transform"
    /\ UNCHANGED << env_vars, started, cleaned_rows, extract_vars, api_vars,
                    load_vars, dd_vars, val_vars, tr_vars, again_vars >>

\* run_extraction's end (lines 183-197) and run_pipeline's lines 77-84: the
\* stage returns its results, or raises and the run is aborted.
EndExtraction ==
    /\ pc = "x_end"
    /\ IF extraction_raises(results)
       THEN /\ stats' = StageFailed(stats, "extraction")
            /\ pc' = "failed"
       ELSE /\ stats' = [ stats EXCEPT !.extracted = Len(results.sales_data) ]
            /\ pc' = "transform"
    /\ UNCHANGED << env_vars, started, cleaned_rows, extract_vars, api_vars,
                    load_vars, dd_vars, val_vars, tr_vars, again_vars >>

\* run_pipeline, lines 89-97: the transformation stage.
Transform ==
    /\ pc = "transform"
    /\ started' = Append(started, "transformation")
    /\ LET t == run_transformation(results) IN
         IF t.exc # "none"
         THEN /\ stats' = StageFailed(stats, "transformation")
              /\ pc' = "failed"
              /\ UNCHANGED cleaned_rows
         ELSE /\ cleaned_rows' = t.rows
              /\ stats' = [ stats EXCEPT !.transformed = Len(t.rows) ]
              /\ pc' = "load"
    /\ UNCHANGED << env_vars, extract_vars, api_vars, load_vars, dd_vars, val_vars, tr_vars, again_vars >>

----------------------------------------------------------------------------
(* etl/loader.py *)

BATCH_SIZE == 10

\* The keys load_batch reads with row[...]: a missing one raises KeyError.
RequiredKeys ==
    { "order_id", "customer_name", "email", "product_id", "quantity",
      "unit_price", "total", "order_date", "payment_method" }

\* str(list) of a list of strings: "['a', 'b']".
RECURSIVE Joined(_)
Joined(l) ==
    IF l = << >> THEN << >>
    ELSE IF Len(l) = 1 THEN << "'", l[1], "'" >>
    ELSE << "'", l[1], "'", ",", " " >> \o Joined(Tail(l))

StrOfList(l) == << "[" >> \o Joined(l) \o << "]" >>

\* The tuple load_batch binds to the INSERT, as a record of the columns.
StoredRow(row) ==
    [ order_id |-> row["order_id"],
      customer_name |-> row["customer_name"],
      email |-> row["email"],
      product_id |-> row["product_id"],
      product_name |-> IF "product_name" \in DOMAIN row
                       THEN row["product_name"] ELSE << "UNKNOWN" >>,
      category |-> IF "category" \in DOMAIN row
                   THEN row["category"] ELSE << "UNKNOWN" >>,
      quantity |-> row["quantity"],
      unit_price |-> row["unit_price"],
      total |-> row["total"],
      order_date |-> row["order_date"],
      payment_method |-> row["payment_method"],
      current_stock |-> IF "current_stock" \in DOMAIN row
                        THEN row["current_stock"] ELSE -1,
      anomaly_flags |-> StrOfList(IF "anomaly_flags" \in DOMAIN row
                                  THEN row["anomaly_flags"] ELSE << >>) ]

HasKey(store, id) == \E r \in store : r.order_id = id

\* An INSERT without the primary key: every row counts as inserted.
InsertAlways(store, row) ==
    [ store |-> store \cup { StoredRow(row) }, rowcount |-> 1 ]

\* INSERT OR REPLACE: the row of the table with the same order_id is replaced.
InsertOrReplace(store, row) ==
    [ store |-> { r \in store : r.order_id # row["order_id"] } \cup { StoredRow(row) },
      rowcount |-> 1 ]

\* INSERT OR IGNORE of one row into the table as the transaction sees it: the
\* table afterwards, and cursor.rowcount.
InsertOrIgnore(store, row) ==
    IF HasKey(store, row["order_id"])
    THEN [ store |-> store, rowcount |-> 0 ]
    ELSE [ store |-> store \cup { StoredRow(row) }, rowcount |-> 1 ]

\* load_batch(cursor, batch, batch_num) on the table as the transaction sees
\* it: the table afterwards and (inserted, skipped), or the KeyError of a row
\* that lacks a column.
RECURSIVE load_batch(_, _)
load_batch(store, batch) ==
    IF batch = << >>
    THEN [ exc |-> "none", store |-> store, inserted |-> 0, skipped |-> 0 ]
    ELSE LET before == load_batch(store, SubSeq(batch, 1, Len(batch) - 1))
             row == batch[Len(batch)]
         IN IF before.exc # "none" THEN before
            ELSE IF RequiredKeys \ DOMAIN row # {}
            THEN [ before EXCEPT !.exc = "KeyError" ]
            ELSE LET r == InsertOrIgnore(before.store, row) IN
                 [ exc |-> "none", store |-> r.store,
                   inserted |-> before.inserted + r.rowcount,
                   skipped |-> before.skipped + (1 - r.rowcount) ]

\* A connection failure that can happen at any batch.
simulate_connection_issue_any_batch(bn, total_batches) == { TRUE, FALSE }

\* simulate_connection_issue(batch_num, total_batches): the values it can
\* return (random.random() < 0.3 on the last batch only).
simulate_connection_issue(bn, total_batches) ==
    IF bn = total_batches THEN { TRUE, FALSE } ELSE { FALSE }

\* A partition into full batches only: the rows after the last full batch are
\* left out.
BatchesWithoutRemainder(rows) ==
    [ k \in 1..(Len(rows) \div BATCH_SIZE) |->
        SubSeq(rows, (k - 1) * BATCH_SIZE + 1, k * BATCH_SIZE) ]

\* batches = [cleaned_rows[i:i + BATCH_SIZE] for i in range(0, len, BATCH_SIZE)]
Batches(rows) ==
    [ k \in 1..((Len(rows) + BATCH_SIZE - 1) \div BATCH_SIZE) |->
        SubSeq(rows, (k - 1) * BATCH_SIZE + 1,
               IF k * BATCH_SIZE < Len(rows) THEN k * BATCH_SIZE ELSE Len(rows)) ]

\* A commit that is lost: the table stays as it was.
CommitLost(table, transaction) == table

\* conn.commit(): the rows of the transaction become part of the table.
Committed(table, transaction) == table \cup transaction

LoadEv(op, bn) == [ op |-> op, batch |-> bn ]

\* run_loading, lines 162-174: create_database, which raises sqlite3.Error
\* when the database cannot be created, and the split into batches.
CreateDatabase ==
    /\ pc = "l_create"
    /\ \E created \in BOOLEAN :
         IF created
         THEN /\ conn' = "open"
              /\ batches' = Batches(load_in)
              /\ batch_num' = 1
              /\ pc' = "l_loop"
         ELSE /\ pc' = "l_raised"
              /\ UNCHANGED << conn, batches, batch_num >>
    /\ UNCHANGED << env_vars, stats, started, cleaned_rows, extract_vars,
                    api_vars, db, txn, total_inserted, total_skipped,
                    load_log, load_in, load_ret, dd_vars, val_vars, tr_vars, again_vars >>

\* One iteration of the loop of run_loading up to the commit (lines 176-199):
\* the simulated connection failure with its rollback and break, or load_batch.
LoadIteration ==
    /\ pc = "l_loop"
    /\ batch_num <= Len(batches)
    /\ \E issue \in simulate_connection_issue(batch_num, Len(batches)) :
         IF issue
         THEN /\ txn' = {}
              /\ load_log' = load_log \o << LoadEv("connection_lost", batch_num),
                                            LoadEv("rollback", batch_num) >>
              /\ pc' = "l_close"
              /\ UNCHANGED << total_inserted, total_skipped, batch_num >>
         ELSE LET r == load_batch(db \cup txn, batches[batch_num]) IN
              /\ load_log' = Append(load_log, LoadEv("load_batch", batch_num))
              /\ IF r.exc # "none"
                 THEN /\ txn' = {}
                      /\ pc' = "l_raised"
                      /\ UNCHANGED << total_inserted, total_skipped >>
                 ELSE /\ txn' = r.store \ db
                      /\ total_inserted' = total_inserted + r.inserted
                      /\ total_skipped' = total_skipped + r.skipped
                      /\ pc' = "l_commit"
              /\ UNCHANGED batch_num
    /\ UNCHANGED << env_vars, stats, started, cleaned_rows, extract_vars,
                    api_vars, db, conn, batches, load_in, load_ret, dd_vars, val_vars, tr_vars, again_vars >>

\* conn.commit() after each batch (line 203), and the next iteration.
Commit ==
    /\ pc = "l_commit"
    /\ db' = Committed(db, txn)
    /\ txn' = {}
    /\ load_log' = Append(load_log, LoadEv("commit", batch_num))
    /\ batch_num' = batch_num + 1
    /\ pc' = "l_loop"
    /\ UNCHANGED << env_vars, stats, started, cleaned_rows, extract_vars,
                    api_vars, conn, batches, total_inserted, total_skipped,
                    load_in, load_ret, dd_vars, val_vars, tr_vars, again_vars >>

\* The end of run_loading (lines 207-219): after the last batch or the break,
\* conn.close() and return total_inserted, total_skipped.
LoadClose ==
    /\ \/ pc = "l_close"
       \/ pc = "l_loop" /\ batch_num > Len(batches)
    /\ conn' = "closed"
    /\ txn' = {}
    /\ load_ret' = << total_inserted, total_skipped >>
    /\ pc' = "l_done"
    /\ UNCHANGED << env_vars, stats, started, cleaned_rows, extract_vars,
                    api_vars, db, batches, batch_num, total_inserted,
                    total_skipped, load_log, load_in, dd_vars, val_vars, tr_vars, again_vars >>

----------------------------------------------------------------------------
(* main.py, run_pipeline: the loading stage and the end of the run *)

\* run_pipeline, lines 102-103: the call of run_loading(cleaned_rows).
StartLoading ==
    /\ pc = "load"
    /\ started' = Append(started, "loading")
    /\ load_in' = cleaned_rows
    /\ pc' = "l_create"
    /\ UNCHANGED << env_vars, stats, cleaned_rows, extract_vars, api_vars,
                    db, txn, conn, batches, batch_num, total_inserted,
                    total_skipped, load_log, load_ret, dd_vars, val_vars, tr_vars, again_vars >>

\* run_pipeline, lines 103-105 and 116-133: run_loading returned.
LoadReturned ==
    /\ pc = "l_done"
    /\ stats' = [ stats EXCEPT !.loaded = load_ret[1], !.skipped = load_ret[2] ]
    /\ pc' = "completed"
    /\ UNCHANGED << env_vars, started, cleaned_rows, extract_vars, api_vars,
                    load_vars, dd_vars, val_vars, tr_vars, again_vars >>

\* run_pipeline, lines 106-111: an exception left run_loading.
LoadRaised ==
    /\ pc = "l_raised"
    /\ stats' = StageFailed(stats, "loading")
    /\ pc' = "failed"
    /\ UNCHANGED << env_vars, started, cleaned_rows, extract_vars, api_vars,
                    load_vars, dd_vars, val_vars, tr_vars, again_vars >>

----------------------------------------------------------------------------
(* check_duplicates applied to a list, and again to its own output *)

NotRun == [ unique_rows |-> << >>, duplicate_count |-> 0, logged |-> "not_run" ]

DedupeOnce ==
    /\ pc = "dd_start"
    /\ dd_once' = check_duplicates(dd_rows)
    /\ pc' = "dd_once"
    /\ UNCHANGED << env_vars, stats, started, cleaned_rows, extract_vars,
                    api_vars, load_vars, dd_rows, dd_twice, val_vars, tr_vars, again_vars >>

DedupeTwice ==
    /\ pc = "dd_once"
    /\ dd_twice' = check_duplicates(dd_once.unique_rows)
    /\ pc' = "dd_twice"
    /\ UNCHANGED << env_vars, stats, started, cleaned_rows, extract_vars,
                    api_vars, load_vars, dd_rows, dd_once, val_vars, tr_vars, again_vars >>

----------------------------------------------------------------------------
(* The inputs of the model *)

\* All sequences over S of length at most n.
RECURSIVE SeqsUpTo(_, _)
SeqsUpTo(S, n) ==
    IF n = 0 THEN { << >> }
    ELSE LET shorter == SeqsUpTo(S, n - 1) IN
         shorter \cup { Append(q, x) : q \in { r \in shorter : Len(r) = n - 1 }, x \in S }

D_ISO == << "2", "0", "2", "4", "-", "0", "1", "-", "1", "5" >>
D_DMY == << "1", "5", "/", "0", "1", "/", "2", "0", "2", "4" >>

\* Lines of the sales file as csv.DictReader yields them: a clean order A, an
\* order B of an unknown product with a high value and no email, a second
\* line of order A with a zero quantity, a line without order_id, and a short
\* line whose quantity DictReader fills with None.
CsvLines ==
    LET base == [ order_id |-> << "A" >>, customer_name |-> << "Ann" >>,
                  email |-> << "a@x.io" >>, product_id |-> << "P1" >>,
                  quantity |-> << "2" >>, unit_price |-> << "9", ".", "5" >>,
                  order_date |-> D_ISO, payment_method |-> << "card" >> ]
    IN { base,
         [ base EXCEPT !.order_id = << "B" >>, !.customer_name = << "Bob" >>,
                       !.email = << >>, !.product_id = << "P9" >>,
                       !.quantity = << "2", "5" >>,
                       !.unit_price = << "3", "0" >>, !.order_date = D_DMY ],
         [ base EXCEPT !.customer_name = << "Al" >>, !.quantity = << "0" >> ],
         [ base EXCEPT !.order_id = << >> ],
         [ base EXCEPT !.order_id = << "C" >>, !.quantity = NONE ] }

AllColumns ==
    { "order_id", "customer_name", "email", "product_id", "quantity",
      "unit_price", "order_date", "payment_method" }

\* The headers of the sales file: complete, or lacking a column.
CsvHeaders ==
    { AllColumns, AllColumns \ { "quantity" }, AllColumns \ { "payment_method" } }

Restrict(row, header) == [ k \in header |-> row[k] ]

CsvFiles ==
    { NOT_FOUND } \cup
    { File(h, [ i \in 1..Len(ls) |-> Restrict(ls[i], h) ]) :
        h \in CsvHeaders, ls \in SeqsUpTo(CsvLines, MaxRows) }

Catalog ==
    << [ product_id |-> << "P1" >>, name |-> << "Pen" >>,
         category |-> << "Office" >>, stock |-> 5 ] >>

JsonFiles ==
    { NOT_FOUND, MALFORMED, JSON_ARRAY,
      File({ "version" }, << >>),
      File({ "products" }, << >>),
      File({ "products" }, Catalog) }

\* A cleaned and enriched row of order n, as run_transformation returns them.
OrderId(n) == << "O" >> \o Padded(n, 2)

CleanRow(n, who) ==
    [ order_id |-> OrderId(n), customer_name |-> << who >>,
      email |-> << "a@x.io" >>, product_id |-> << "P1" >>,
      quantity |-> 1, unit_price |-> 1000, total |-> 1000,
      order_date |-> D_ISO, payment_method |-> << "card" >>,
      anomaly_flags |-> << >>, product_name |-> << "Pen" >>,
      category |-> << "Office" >>, current_stock |-> 5 ]

\* The lists of at most max rows run_loading is given on its own: orders
\* 1..n, possibly with row j a second row of order i (the next row, or the same
\* place one batch on), possibly with one row lacking the payment_method column.
LoadLists(max) ==
    LET plain(n) == [ k \in 1..n |-> CleanRow(k, "new") ]
        withDup(n, i, j) == [ plain(n) EXCEPT ![j] = CleanRow(i, "again") ]
        lists == { plain(n) : n \in 0..max } \cup
                 UNION { { withDup(n, j - d, j) : j \in (d + 1)..n } :
                           n \in 0..max, d \in { 1, BATCH_SIZE } }
        lacking(l, k) ==
            [ l EXCEPT ![k] = [ c \in (DOMAIN l[k]) \ { "payment_method" } |-> l[k][c] ] ]
    IN lists \cup
       UNION { { lacking(l, k) : k \in { 2, BATCH_SIZE + 2 } \cap (1..Len(l)) } :
                 l \in lists }

\* The table before run_loading runs on its own: rows of an earlier run.
LoadStores ==
    SUBSET { StoredRow(CleanRow(1, "old")), StoredRow(CleanRow(BATCH_SIZE + 1, "old")) }

\* The table before a run of the pipeline: empty, or order A of an earlier run.
PipelineStores ==
    { {},
      { StoredRow([ CleanRow(1, "old") EXCEPT !.order_id = << "A" >> ]) } }

\* The lists check_duplicates is given on its own.
DedupeRows ==
    { [ order_id |-> << id >>, customer_name |-> << who >> ] :
        id \in { "A", "B", "C" }, who \in { "x", "y" } }

\* The text of a cell, one character a piece.
T1(a) == << a >>
T2(a, b) == << a, b >>
T3(a, b, c) == << a, b, c >>

\* "absent" stands for a column the file does not have.
ABSENT == << "<absent>" >>

OrderIdCells == { T1("A"), << >>, NONE, ABSENT }
ProductIdCells == { T1("P1"), << >>, ABSENT }
EmailCells == { T1("a@x.io"), << >> }
QuantityCells ==
    { T1("1"), T1("2"), T1("0"), T2("-", "3"), T2("2", "0"), T2("2", "1"),
      T3(" ", "7", " "), T1("x"), T3("2", ".", "5"), << >>, NONE, ABSENT }
UnitPriceCells ==
    { T3("9", ".", "5"), T2("2", "5"), << "5", "0", "0", ".", "0", "1" >>,
      << "0", ".", "1", "2", "5" >>, T1("0"), << "0", ".", "0", "0" >>,
      << "-", "4", ".", "2", "5" >>, T3("a", "b", "c"), T1("nan"), T1("inf"),
      T2("-", "inf"), << >>, NONE, ABSENT }
OrderDateCells ==
    { D_ISO, D_DMY,
      << "0", "1", "-", "1", "5", "-", "2", "0", "2", "4" >>,
      << "Jan", " ", "1", "5", " ", "2", "0", "2", "4" >>,
      << "2", "0", "2", "4", "-", "0", "2", "-", "3", "0" >>,
      T1("soon"), NONE, ABSENT }
TotalCells == { T3("9", "9", "9"), ABSENT }

\* The row of the cells, without the absent columns.
RowOf(cells) ==
    [ k \in { c \in DOMAIN cells : cells[c] # ABSENT } |-> cells[k] ]

\* The rows validate_row is given on its own.
ValidateRows ==
    { RowOf([ order_id |-> o, product_id |-> p, email |-> e, quantity |-> q,
              unit_price |-> u, order_date |-> d, total |-> t,
              customer_name |-> T1("Ann") ]) :
        o \in OrderIdCells, p \in ProductIdCells, e \in EmailCells,
        q \in QuantityCells, u \in UnitPriceCells, d \in OrderDateCells,
        t \in TotalCells }

\* The lines of the sales data run_transformation is given on its own: the
\* lines of CsvLines, a second order of the unknown product, a line of order
\* A whose quantity is no number, and an order of the product of low stock
\* with a price of nothing.
TransformLines ==
    LET base == CHOOSE l \in CsvLines : l.order_id = T1("A") /\ l.quantity = T1("2")
    IN CsvLines \cup
       { [ base EXCEPT !.order_id = T1("D"), !.product_id = T1("P9") ],
         [ base EXCEPT !.customer_name = T1("Eve"), !.quantity = T1("x") ],
         [ base EXCEPT !.order_id = T1("F"), !.unit_price = << >> ] }

TransformHeaders ==
    { AllColumns, AllColumns \ { "quantity" }, AllColumns \ { "order_date" } }

TransformCatalogs ==
    { << >>, Catalog,
      Catalog \o << [ product_id |-> << "P2" >>, name |-> << "Ink" >>,
                      category |-> << "Office" >>, stock |-> 40 ] >> }

\* The mappings run_transformation is given on its own: both source keys, or
\* the sales data only.
TransformInputs(max) ==
    { [ sales_data |-> [ i \in 1..Len(ls) |-> Restrict(ls[i], h) ],
        product_catalog |-> c ] :
        h \in TransformHeaders, ls \in SeqsUpTo(TransformLines, max),
        c \in TransformCatalogs }
    \cup { [ sales_data |-> << l >> ] : l \in TransformLines }

----------------------------------------------------------------------------
(* validate_row applied to a row, run_transformation to the list of that    *)
(* row alone, then detect_anomalies to the cleaned row                      *)

Validate ==
    /\ pc = "v_start"
    /\ v_out' = validate_row(v_row, 1)
    /\ pc' = "v_done"
    /\ UNCHANGED << env_vars, stats, started, cleaned_rows, extract_vars,
                    api_vars, load_vars, dd_vars, v_row, v_alerts, tr_vars, again_vars >>

\* run_transformation on the sales data << v_row >> and the catalog.
TransformRow ==
    /\ pc = "v_done"
    /\ t_in' = [ sales_data |-> << v_row >>, product_catalog |-> Catalog ]
    /\ t_out' = run_transformation(t_in')
    /\ pc' = "v_transformed"
    /\ UNCHANGED << env_vars, stats, started, cleaned_rows, extract_vars,
                    api_vars, load_vars, dd_vars, val_vars, again_vars >>

DetectAnomalies ==
    /\ pc = "v_transformed"
    /\ v_out.ok
    /\ v_alerts' = detect_anomalies(v_out.cleaned, 1)
    /\ pc' = "v_flagged"
    /\ UNCHANGED << env_vars, stats, started, cleaned_rows, extract_vars,
                    api_vars, load_vars, dd_vars, v_row, v_out, tr_vars, again_vars >>

----------------------------------------------------------------------------
(* run_transformation applied to a mapping *)

RunTransformation ==
    /\ pc = "t_start"
    /\ t_out' = run_transformation(t_in)
    /\ pc' = "t_done"
    /\ UNCHANGED << env_vars, stats, started, cleaned_rows, extract_vars,
                    api_vars, load_vars, dd_vars, val_vars, t_in, again_vars >>

----------------------------------------------------------------------------
(* run_loading called again with the same list on the store it left *)

NoFirstRun == [ ret |-> << 0, 0 >>, db |-> {}, lost |-> FALSE ]

\* run_loading has returned; it is called a second time with the same list:
\* lines 147-174 of the second call, up to create_database.
LoadAgain ==
    /\ pc = "l_done"
    /\ l_run = 1
    /\ l_first' = [ ret |-> load_ret, db |-> db,
                    lost |-> \E i \in 1..Len(load_log) :
                                 load_log[i].op = "connection_lost" ]
    /\ l_run' = 2
    /\ pc' = "l_create"
    /\ conn' = "none"
    /\ txn' = {}
    /\ batches' = << >>
    /\ batch_num' = 0
    /\ total_inserted' = 0
    /\ total_skipped' = 0
    /\ load_log' = << >>
    /\ load_ret' = << 0, 0 >>
    /\ UNCHANGED << env_vars, stats, started, cleaned_rows, extract_vars,
                    api_vars, db, load_in, dd_vars, val_vars, tr_vars >>

----------------------------------------------------------------------------
(* The specifications *)

\* run_pipeline() on some files and some store.
Init ==
    /\ pc = "start"
    /\ csv_file \in CsvFiles
    /\ json_file \in JsonFiles
    /\ db0 \in PipelineStores
    /\ db = db0
    /\ stats = InitialStats
    /\ started = << >>
    /\ cleaned_rows = << >>
    /\ results = [ sales_data |-> << >>, product_catalog |-> << >>,
                   api_data |-> << >> ]
    /\ read_log = << >>
    /\ max_retries = DEFAULT_MAX_RETRIES
    /\ attempt = 1
    /\ api_log = << >>
    /\ api_ret = << >>
    /\ txn = {}
    /\ conn = "none"
    /\ batches = << >>
    /\ batch_num = 0
    /\ total_inserted = 0
    /\ total_skipped = 0
    /\ load_log = << >>
    /\ load_in = << >>
    /\ load_ret = << 0, 0 >>
    /\ dd_rows = << >>
    /\ dd_once = NotRun
    /\ dd_twice = NotRun
    /\ v_row = << >>
    /\ v_out = << >>
    /\ v_alerts = << >>
    /\ t_in = << >>
    /\ t_out = << >>
    /\ l_run = 1
    /\ l_first = NoFirstRun

Next ==
    \/ StartExtraction
    \/ ExtractCsv
    \/ ExtractJson
    \/ ApiAttempt
    \/ ApiExhausted
    \/ ExtractApiReturn
    \/ EndExtraction
    \/ Transform
    \/ StartLoading
    \/ CreateDatabase
    \/ LoadIteration
    \/ Commit
    \/ LoadClose
    \/ LoadReturned
    \/ LoadRaised

Spec == Init /\ [][Next]_vars

\* extract_from_api(max_retries = m) on its own, for the numbers of retries of
\* the model.
InitApi ==
    /\ pc = "api_loop"
    /\ max_retries \in 1..MaxRetriesBound
    /\ csv_file = NOT_FOUND
    /\ json_file = NOT_FOUND
    /\ db0 = {}
    /\ db = {}
    /\ stats = InitialStats
    /\ started = << >>
    /\ cleaned_rows = << >>
    /\ results = [ sales_data |-> << >>, product_catalog |-> << >>,
                   api_data |-> << >> ]
    /\ read_log = << >>
    /\ attempt = 1
    /\ api_log = << >>
    /\ api_ret = << >>
    /\ txn = {}
    /\ conn = "none"
    /\ batches = << >>
    /\ batch_num = 0
    /\ total_inserted = 0
    /\ total_skipped = 0
    /\ load_log = << >>
    /\ load_in = << >>
    /\ load_ret = << 0, 0 >>
    /\ dd_rows = << >>
    /\ dd_once = NotRun
    /\ dd_twice = NotRun
    /\ v_row = << >>
    /\ v_out = << >>
    /\ v_alerts = << >>
    /\ t_in = << >>
    /\ t_out = << >>
    /\ l_run = 1
    /\ l_first = NoFirstRun

NextApi == ApiAttempt \/ ApiExhausted

SpecApi == InitApi /\ [][NextApi]_vars

\* run_loading(rows) on its own, on a store that may hold rows already.
InitLoad ==
    /\ pc = "l_create"
    /\ load_in \in LoadLists(MaxLoadRows)
    /\ db0 \in LoadStores
    /\ db = db0
    /\ csv_file = NOT_FOUND
    /\ json_file = NOT_FOUND
    /\ stats = InitialStats
    /\ started = << >>
    /\ cleaned_rows = << >>
    /\ results = [ sales_data |-> << >>, product_catalog |-> << >>,
                   api_data |-> << >> ]
    /\ read_log = << >>
    /\ max_retries = DEFAULT_MAX_RETRIES
    /\ attempt = 1
    /\ api_log = << >>
    /\ api_ret = << >>
    /\ txn = {}
    /\ conn = "none"
    /\ batches = << >>
    /\ batch_num = 0
    /\ total_inserted = 0
    /\ total_skipped = 0
    /\ load_log = << >>
    /\ load_ret = << 0, 0 >>
    /\ dd_rows = << >>
    /\ dd_once = NotRun
    /\ dd_twice = NotRun
    /\ v_row = << >>
    /\ v_out = << >>
    /\ v_alerts = << >>
    /\ t_in = << >>
    /\ t_out = << >>
    /\ l_run = 1
    /\ l_first = NoFirstRun

NextLoad == CreateDatabase \/ LoadIteration \/ Commit \/ LoadClose

SpecLoad == InitLoad /\ [][NextLoad]_vars

\* run_loading(rows) on its own, then a second time with the same rows on the
\* store the first call left.
NextReload == NextLoad \/ LoadAgain

SpecReload == InitLoad /\ [][NextReload]_vars

\* check_duplicates(rows) on its own, then on its own output.
InitDedupe ==
    /\ pc = "dd_start"
    /\ dd_rows \in SeqsUpTo(DedupeRows, MaxDedupeLen)
    /\ dd_once = NotRun
    /\ dd_twice = NotRun
    /\ v_row = << >>
    /\ v_out = << >>
    /\ v_alerts = << >>
    /\ t_in = << >>
    /\ t_out = << >>
    /\ l_run = 1
    /\ l_first = NoFirstRun
    /\ csv_file = NOT_FOUND
    /\ json_file = NOT_FOUND
    /\ db0 = {}
    /\ db = {}
    /\ stats = InitialStats
    /\ started = << >>
    /\ cleaned_rows = << >>
    /\ results = [ sales_data |-> << >>, product_catalog |-> << >>,
                   api_data |-> << >> ]
    /\ read_log = << >>
    /\ max_retries = DEFAULT_MAX_RETRIES
    /\ attempt = 1
    /\ api_log = << >>
    /\ api_ret = << >>
    /\ txn = {}
    /\ conn = "none"
    /\ batches = << >>
    /\ batch_num = 0
    /\ total_inserted = 0
    /\ total_skipped = 0
    /\ load_log = << >>
    /\ load_in = << >>
    /\ load_ret = << 0, 0 >>

NextDedupe == DedupeOnce \/ DedupeTwice

SpecDedupe == InitDedupe /\ [][NextDedupe]_vars

\* validate_row(row, 1) on some row, and detect_anomalies on what it cleaned.
InitValidate ==
    /\ pc = "v_start"
    /\ csv_file = NOT_FOUND
    /\ json_file = NOT_FOUND
    /\ db0 = {}
    /\ db = {}
    /\ stats = InitialStats
    /\ started = << >>
    /\ cleaned_rows = << >>
    /\ results = [ sales_data |-> << >>, product_catalog |-> << >>,
                   api_data |-> << >> ]
    /\ read_log = << >>
    /\ max_retries = DEFAULT_MAX_RETRIES
    /\ attempt = 1
    /\ api_log = << >>
    /\ api_ret = << >>
    /\ txn = {}
    /\ conn = "none"
    /\ batches = << >>
    /\ batch_num = 0
    /\ total_inserted = 0
    /\ total_skipped = 0
    /\ load_log = << >>
    /\ load_in = << >>
    /\ load_ret = << 0, 0 >>
    /\ dd_rows = << >>
    /\ dd_once = NotRun
    /\ dd_twice = NotRun
    /\ v_row \in ValidateRows
    /\ v_out = << >>
    /\ v_alerts = << >>
    /\ t_in = << >>
    /\ t_out = << >>
    /\ l_run = 1
    /\ l_first = NoFirstRun

NextValidate == Validate \/ TransformRow \/ DetectAnomalies

SpecValidate == InitValidate /\ [][NextValidate]_vars

\* run_transformation(extracted_data) on some mapping.
InitTransform ==
    /\ pc = "t_start"
    /\ csv_file = NOT_FOUND
    /\ json_file = NOT_FOUND
    /\ db0 = {}
    /\ db = {}
    /\ stats = InitialStats
    /\ started = << >>
    /\ cleaned_rows = << >>
    /\ results = [ sales_data |-> << >>, product_catalog |-> << >>,
                   api_data |-> << >> ]
    /\ read_log = << >>
    /\ max_retries = DEFAULT_MAX_RETRIES
    /\ attempt = 1
    /\ api_log = << >>
    /\ api_ret = << >>
    /\ txn = {}
    /\ conn = "none"
    /\ batches = << >>
    /\ batch_num = 0
    /\ total_inserted = 0
    /\ total_skipped = 0
    /\ load_log = << >>
    /\ load_in = << >>
    /\ load_ret = << 0, 0 >>
    /\ dd_rows = << >>
    /\ dd_once = NotRun
    /\ dd_twice = NotRun
    /\ v_row = << >>
    /\ v_out = << >>
    /\ v_alerts = << >>
    /\ t_in \in TransformInputs(MaxTransformRows)
    /\ t_out = << >>
    /\ l_run = 1
    /\ l_first = NoFirstRun

NextTransform == RunTransformation

SpecTransform == InitTransform /\ [][NextTransform]_vars

----------------------------------------------------------------------------
(* Properties of run_loading *)

\* The batch at which run_loading lost the connection, 0 when it did not.
LostAt ==
    IF \E i \in 1..Len(load_log) : load_log[i].op = "connection_lost"
    THEN load_log[CHOOSE i \in 1..Len(load_log) :
                      load_log[i].op = "connection_lost"].batch
    ELSE 0

\* The positions in load_in of the rows of batches 1..k.
RowsUpTo(k) ==
    1..(IF k * BATCH_SIZE < Len(load_in) THEN k * BATCH_SIZE ELSE Len(load_in))

\* The table after batches 1..k were inserted or ignored and committed on top
\* of db0: db0, and the first row of every order not in db0.
StoreAfter(k) ==
    db0 \cup { StoredRow(load_in[i]) :
                 i \in { j \in RowsUpTo(k) :
                           /\ ~HasKey(db0, load_in[j]["order_id"])
                           /\ \A h \in 1..(j - 1) :
                                load_in[h]["order_id"] # load_in[j]["order_id"] } }

\* C1: batch atomicity.  Once the connection failure hit batch k, and so when
\* run_loading ends, the table holds exactly what it held before plus the rows
\* of batches 1..k-1; no row of batch k was added (an order of batch k is in
\* the table only if it was there before or came with an earlier batch); and
\* nothing was inserted or committed for the batches k..n.
C1_BatchAtomicity ==
    LostAt # 0 =>
        /\ LostAt \in 1..Len(batches)
        /\ db = StoreAfter(LostAt - 1)
        /\ txn = {}
        /\ \A i \in RowsUpTo(LostAt) \ RowsUpTo(LostAt - 1) :
               HasKey(db, load_in[i]["order_id"]) =>
                   \/ HasKey(db0, load_in[i]["order_id"])
                   \/ \E h \in RowsUpTo(LostAt - 1) :
                          load_in[h]["order_id"] = load_in[i]["order_id"]
        /\ \A i \in 1..Len(load_log) :
               load_log[i].op \in { "load_batch", "commit" }
                   => load_log[i].batch < LostAt
        /\ pc \in { "l_close", "l_done" }

\* The failure hit the third batch of three, run_loading ended, and the two
\* batches before it are in the table while the order of the third is not.
C1_Witness ==
    /\ pc = "l_done"
    /\ LostAt = 3
    /\ Len(load_in) = 2 * BATCH_SIZE + 1
    /\ Cardinality(db) = 2 * BATCH_SIZE
    /\ ~HasKey(db, load_in[Len(load_in)]["order_id"])

----------------------------------------------------------------------------
(* Properties of run_pipeline and run_extraction *)

Terminal == pc \in { "completed", "failed" }

\* C2: a connection failure during Load is fatal: the run does not end as
\* completed, and its final statistics have phase_failed = loading and the
\* error counted.
C2_ConnectionFailureFatal ==
    ( LostAt # 0 /\ Terminal ) =>
        /\ pc = "failed"
        /\ stats.phase_failed = "loading"
        /\ stats.errors = 1

StageOrder == << "extraction", "transformation", "loading" >>

StagesInOrder ==
    /\ Len(started) <= Len(StageOrder)
    /\ started = SubSeq(StageOrder, 1, Len(started))
    /\ Len(started) >= 2 =>
          /\ Len(read_log) = 3
          /\ results.sales_data # << >>
          /\ stats.extracted = Len(results.sales_data)
    /\ Len(started) = 3 =>
          /\ stats.transformed = Len(cleaned_rows)
          /\ load_in = cleaned_rows
    /\ pc = "failed" <=> stats.phase_failed # "None"
    /\ pc = "failed" =>
          /\ stats.phase_failed = started[Len(started)]
          /\ stats.errors = 1
    /\ pc = "completed" => started = StageOrder /\ stats.errors = 0

StageStep ==
    /\ ~Terminal
    /\ started' # started =>
          /\ Len(started) < Len(StageOrder)
          /\ started' = Append(started, StageOrder[Len(started) + 1])
          /\ pc \in { "start", "transform", "load" }
          /\ stats.phase_failed = "None"
          /\ stats.errors = 0
    /\ stats'.phase_failed # stats.phase_failed =>
          /\ pc' = "failed"
          /\ stats'.phase_failed = started'[Len(started')]

\* C3: the stages start in the order extraction, transformation, loading, each
\* at most once and only after the stage before returned without an
\* exception; an exception in a stage ends the run as failed at that stage;
\* after the run has ended (failed or completed) nothing is started or retried.
C3_StagesSequential == []StagesInOrder /\ [][StageStep]_vars

\* The run failed in the transformation: extraction returned, transformation
\* raised, loading was never started.
C3_Witness ==
    /\ pc = "failed"
    /\ started = << "extraction", "transformation" >>
    /\ stats.phase_failed = "transformation"
    /\ load_log = << >>

ExtractionOver ==
    pc \notin { "start", "x_csv", "x_json", "api_loop", "api_done", "x_end" }

PrimaryEmpty == ~csv_file.exists \/ csv_file.lines = << >>

\* C4: when the sales CSV yields no record, whatever the other sources
\* return, the run ends failed with phase_failed = extraction, errors = 1, all
\* other counters 0, and neither transformation nor loading runs; and the
\* extraction fails for no other outcome of the sources.
C4_PrimaryEmptyFails ==
    ExtractionOver =>
        /\ stats.phase_failed = "extraction" <=> PrimaryEmpty
        /\ PrimaryEmpty =>
              /\ pc = "failed"
              /\ stats = [ extracted |-> 0, transformed |-> 0, loaded |-> 0,
                           skipped |-> 0, errors |-> 1,
                           phase_failed |-> "extraction" ]
              /\ started = << "extraction" >>
              /\ cleaned_rows = << >>
              /\ load_log = << >>
              /\ db = db0

\* C5: run_extraction reads all three sources, in order, whatever the outcome
\* of each; when the sales CSV is not empty it returns a mapping with the
\* three source names, where a source that failed (file not found, JSON parse
\* error, missing key, retries exhausted) is the empty list and every other
\* source holds its records.
C5_SourcesIndependent ==
    ExtractionOver =>
        /\ Len(read_log) = 3
        /\ read_log[1].source = "sales_data"
        /\ read_log[2].source = "product_catalog"
        /\ read_log[3].source = "api_data"
        /\ stats.phase_failed # "extraction" =>
              /\ DOMAIN results = { "sales_data", "product_catalog", "api_data" }
              /\ results.sales_data = csv_file.lines
              /\ results.product_catalog =
                     IF /\ json_file.exists
                        /\ json_file.valid
                        /\ "products" \in json_file.keys
                     THEN json_file.lines ELSE << >>
              /\ results.api_data =
                     IF \E i \in 1..Len(api_log) : api_log[i].level = "info"
                     THEN ApiRecords ELSE << >>
              /\ read_log[3].outcome = "exhausted" <=>
                     \E i \in 1..Len(api_log) : api_log[i].level = "critical"

----------------------------------------------------------------------------
(* Properties of extract_from_api *)

\* The events of api_log of one level, in order.
ApiEvents(level) ==
    LET Is(e) == e.level = level IN SelectSeq(api_log, Is)

\* The loop of extract_from_api is one sequential thread: while an iteration
\* or the return is possible, it is eventually taken.
SpecApiFair == SpecApi /\ WF_vars(NextApi)

ApiBounded ==
    LET tries == ApiEvents("debug") IN
    /\ Len(tries) <= max_retries
    /\ \A i \in 1..Len(tries) : tries[i].attempt = i
    /\ \A i \in 1..Len(api_log) :
         api_log[i].level = "info" =>
             /\ i = Len(api_log)
             /\ pc = "api_done"
             /\ api_ret = ApiRecords
    /\ \A i \in 1..Len(api_log) :
         ( /\ api_log[i].level = "error"
           /\ \E j \in (i + 1)..Len(api_log) : api_log[j].level = "debug" )
             => api_log[i].attempt < max_retries
    /\ pc = "api_done" =>
         \/ ApiEvents("info") # << >>
         \/ Len(tries) = max_retries

\* C6: extract_from_api terminates after at most max_retries attempts,
\* numbered 1..max_retries; the first 200 response returns at once, with no
\* further attempt; a failed attempt is followed by another one only when its
\* number is below max_retries.
C6_BoundedRetries == []ApiBounded /\ <>(pc = "api_done")

\* The call returned with the 200 response of its last permitted attempt,
\* after max_retries - 1 failures.
C6_Witness ==
    /\ pc = "api_done"
    /\ max_retries = DEFAULT_MAX_RETRIES
    /\ Len(ApiEvents("debug")) = max_retries
    /\ Len(ApiEvents("error")) = max_retries - 1
    /\ api_ret = ApiRecords

\* C7: when every attempt fails, extract_from_api returns the empty list (it
\* does not raise), has logged one error per attempt and the critical message
\* exactly once; when an attempt succeeds the critical message is never logged.
C7_AllFail ==
    /\ Len(ApiEvents("critical")) <= 1
    /\ ApiEvents("info") # << >> => ApiEvents("critical") = << >>
    /\ ( pc = "api_done" /\ ApiEvents("info") = << >> ) =>
         /\ api_ret = << >>
         /\ Len(ApiEvents("error")) = max_retries
         /\ \A a \in 1..max_retries :
                Cardinality({ i \in 1..Len(api_log) :
                                /\ api_log[i].level = "error"
                                /\ api_log[i].attempt = a }) = 1
         /\ Len(ApiEvents("critical")) = 1
         /\ api_log[Len(api_log)].level = "critical"

\* All of the default three attempts failed and the call returned.
C7_Witness ==
    /\ pc = "api_done"
    /\ max_retries = DEFAULT_MAX_RETRIES
    /\ ApiEvents("info") = << >>
    /\ Len(ApiEvents("error")) = DEFAULT_MAX_RETRIES
    /\ api_ret = << >>

\* C8: after a failed attempt i below max_retries the call waits 2^i seconds
\* (sleeps are in tenths of a second), so the waits strictly increase; there
\* is no wait after the last permitted attempt or after a success.
C8_BackoffDelays ==
    LET sleeps == ApiEvents("sleep") IN
    /\ \A i \in 1..Len(api_log) :
         ( api_log[i].level = "error" /\ api_log[i].attempt < max_retries ) =>
             \E j \in (i + 1)..Len(api_log) :
                 /\ api_log[j].level = "sleep"
                 /\ api_log[j].attempt = api_log[i].attempt
                 /\ api_log[j].arg = 10 * Pow2(api_log[i].attempt)
    /\ \A i \in 1..Len(sleeps) :
         /\ sleeps[i].attempt < max_retries
         /\ sleeps[i].arg = 10 * Pow2(sleeps[i].attempt)
         /\ i > 1 => sleeps[i - 1].arg < sleeps[i].arg
    /\ \A i \in 1..Len(api_log) :
         api_log[i].level = "info" =>
             \A j \in 1..Len(api_log) :
                 api_log[j].level = "sleep" => api_log[j].attempt < api_log[i].attempt

----------------------------------------------------------------------------
(* Properties of check_duplicates *)

\* The positions of dd_rows that hold the first row of their order_id.
FirstOccurrences ==
    { i \in 1..Len(dd_rows) :
        \A j \in 1..(i - 1) : dd_rows[j]["order_id"] # dd_rows[i]["order_id"] }

\* The k-th smallest first occurrence.
KthFirst(k) ==
    CHOOSE i \in FirstOccurrences :
        Cardinality({ j \in FirstOccurrences : j < i }) = k - 1

\* C9: check_duplicates keeps exactly the first row of every distinct
\* order_id, in the order in which the ids first appear, and the number of
\* dropped rows it reports is the input length minus the output length.
C9_KeepsFirst ==
    pc \in { "dd_once", "dd_twice" } =>
        LET out == dd_once.unique_rows IN
        /\ Len(out) = Cardinality(FirstOccurrences)
        /\ \A k \in 1..Len(out) : out[k] = dd_rows[KthFirst(k)]
        /\ dd_once.duplicate_count = Len(dd_rows) - Len(out)
        /\ dd_once.logged =
               IF Len(dd_rows) > Len(out) THEN "removed" ELSE "no_duplicates"

\* Two rows were dropped, two kept, and a dropped row differs from the kept
\* row of its order.
C9_Witness ==
    /\ pc = "dd_once"
    /\ dd_once.duplicate_count = 2
    /\ Len(dd_once.unique_rows) = 2
    /\ \E i, j \in 1..Len(dd_rows) :
         /\ i < j
         /\ dd_rows[i]["order_id"] = dd_rows[j]["order_id"]
         /\ dd_rows[i] # dd_rows[j]

\* C10: check_duplicates is idempotent: applied to its own output it returns
\* the same list and reports no dropped row.
C10_Idempotent ==
    pc = "dd_twice" =>
        /\ dd_twice.unique_rows = dd_once.unique_rows
        /\ dd_twice.duplicate_count = 0
        /\ dd_twice.logged = "no_duplicates"

\* The first application dropped a row and kept two, and the second ran.
C10_Witness ==
    /\ pc = "dd_twice"
    /\ dd_once.duplicate_count >= 1
    /\ Len(dd_once.unique_rows) >= 2
    /\ Len(dd_twice.unique_rows) >= 2

----------------------------------------------------------------------------
(* Properties of run_transformation, validate_row and detect_anomalies *)

\* run_transformation returned (it did not raise).
Transformed == pc = "t_done" /\ t_out.exc = "none"

\* The output row is the cleaned row of the raw row j: it has every field of
\* it, with the same value.
CleanedFrom(out, j) ==
    LET v == validate_row(t_in.sales_data[j], j) IN
    /\ v.exc = "none"
    /\ v.ok
    /\ \A k \in DOMAIN v.cleaned : k \in DOMAIN out /\ out[k] = v.cleaned[k]

\* C11: every row run_transformation returns is the cleaned row of a raw row
\* that validate_row accepted, and no two returned rows have the same
\* order_id.
C11_OutputValidUnique ==
    Transformed =>
        /\ \A i \in 1..Len(t_out.rows) :
               \E j \in 1..Len(t_in.sales_data) : CleanedFrom(t_out.rows[i], j)
        /\ \A i, j \in 1..Len(t_out.rows) :
               i # j => t_out.rows[i]["order_id"] # t_out.rows[j]["order_id"]

\* Of three raw rows one was rejected, one was a second row of an order, and
\* one row was returned.
C11_Witness ==
    /\ Transformed
    /\ t_out.rows_in = 3
    /\ t_out.skipped_rows = 1
    /\ t_out.duplicate_count = 1
    /\ Len(t_out.rows) = 1

\* The cell of the row is missing (no such column, or None) or empty.
Missing(row, key) == key \notin DOMAIN row \/ row[key] \in { NONE, << >> }

Validated == pc \in { "v_done", "v_transformed", "v_flagged" }

RowTransformed == pc \in { "v_transformed", "v_flagged" }

\* C12: a row whose order_id is missing or empty is rejected with no cleaned
\* row and never reaches the output of run_transformation; order_id is checked
\* before product_id, so a row missing both is rejected with missing_order_id
\* only, and a rejected row carries exactly one reason.
C12_MissingOrderId ==
    /\ ( Validated /\ Missing(v_row, "order_id") ) =>
           /\ v_out.exc = "none"
           /\ ~v_out.ok
           /\ DOMAIN v_out.cleaned = {}
           /\ v_out.issues = << "missing_order_id" >>
    /\ ( Validated /\ ~Missing(v_row, "order_id")
                   /\ Missing(v_row, "product_id") ) =>
           /\ ~v_out.ok
           /\ v_out.issues = << "missing_product_id" >>
    /\ ( Validated /\ v_out.exc = "none" /\ ~v_out.ok ) =>
           /\ DOMAIN v_out.cleaned = {}
           /\ Len(v_out.issues) = 1
    /\ ( RowTransformed /\ Missing(v_row, "order_id") ) =>
           /\ t_out.exc = "none"
           /\ t_out.rows = << >>
           /\ t_out.skipped_rows = 1

\* A row with neither order_id nor product_id was rejected for its order_id
\* and run_transformation returned no row.
C12_Witness ==
    /\ RowTransformed
    /\ Get(v_row, "order_id") = << >>
    /\ Get(v_row, "product_id") = << >>
    /\ v_out.issues = << "missing_order_id" >>
    /\ t_out.rows = << >>

\* The integers written in the quantity cells of the model; every other cell
\* is no integer.
QuantityWritten ==
    [ c \in { T1("1"), T1("2"), T1("0"), T2("-", "3"), T2("2", "0"),
              T2("2", "1"), T3(" ", "7", " ") } |->
        CASE c = T1("1") -> 1 [] c = T1("2") -> 2 [] c = T1("0") -> 0
          [] c = T2("-", "3") -> -3 [] c = T2("2", "0") -> 20
          [] c = T2("2", "1") -> 21 [] c = T3(" ", "7", " ") -> 7 ]

\* The row reached the quantity check: it has order_id, product_id and a
\* quantity column.
QuantityChecked ==
    /\ Validated
    /\ ~Missing(v_row, "order_id")
    /\ ~Missing(v_row, "product_id")
    /\ "quantity" \in DOMAIN v_row

\* C13: an accepted row whose quantity is an integer <= 0 has the cleaned
\* quantity 1 and the issue invalid_quantity; an accepted row of a positive
\* quantity keeps it; a quantity that is no integer rejects the row with
\* invalid_quantity_type; so every cleaned row has an integer quantity > 0.
C13_Quantity ==
    /\ ( QuantityChecked /\ v_row["quantity"] \notin DOMAIN QuantityWritten ) =>
           /\ v_out.exc = "none"
           /\ ~v_out.ok
           /\ v_out.issues = << "invalid_quantity_type" >>
    /\ ( QuantityChecked /\ v_row["quantity"] \in DOMAIN QuantityWritten ) =>
           /\ v_out.issues # << "invalid_quantity_type" >>
           /\ ( v_out.exc = "none" /\ v_out.ok ) =>
                LET q == QuantityWritten[v_row["quantity"]] IN
                IF q <= 0
                THEN /\ v_out.cleaned["quantity"] = 1
                     /\ "invalid_quantity" \in Range(v_out.issues)
                ELSE /\ v_out.cleaned["quantity"] = q
                     /\ "invalid_quantity" \notin Range(v_out.issues)
    /\ ( Validated /\ v_out.exc = "none" /\ v_out.ok ) =>
           /\ v_out.cleaned["quantity"] \in Nat
           /\ v_out.cleaned["quantity"] > 0

\* A row with the quantity 0 was accepted with the quantity 1.
C13_Witness ==
    /\ Validated
    /\ v_out.ok
    /\ v_row["quantity"] = T1("0")
    /\ v_out.cleaned["quantity"] = 1
    /\ "invalid_quantity" \in Range(v_out.issues)

Accepted == Validated /\ v_out.exc = "none" /\ v_out.ok

\* t is x rounded to hundredths (both in thousandths): a multiple of 10 at
\* most half a hundredth from x, the even hundredth when x is half-way.
RoundedTo2(t, x) ==
    /\ t % 10 = 0
    /\ t - x \in -5..5
    /\ ( t - x \in { -5, 5 } ) => (t \div 10) % 2 = 0

\* C14: the total of a cleaned row is its own quantity times its own unit
\* price, rounded to two decimals (nan and inf when the price is), and a total
\* in the raw row makes no difference to the cleaned row.
C14_Total ==
    Accepted =>
        LET q == v_out.cleaned["quantity"]
            p == v_out.cleaned["unit_price"]
            t == v_out.cleaned["total"]
        IN /\ IF p \in { NAN, INF } THEN t = p ELSE RoundedTo2(t, q * p)
           /\ "total" \in DOMAIN v_row =>
                 v_out.cleaned =
                     validate_row([ k \in (DOMAIN v_row) \ { "total" } |-> v_row[k] ],
                                  1).cleaned

\* A row with a total of its own and a quantity that was corrected to 1 was
\* accepted with the total 1 x 9.50.
C14_Witness ==
    /\ Accepted
    /\ "total" \in DOMAIN v_row
    /\ v_row["quantity"] = T2("-", "3")
    /\ Get(v_row, "unit_price") = T3("9", ".", "5")
    /\ v_out.cleaned["total"] = 9500

\* The numbers written in the unit_price cells of the model, in thousandths;
\* the other filled cells (abc, nan, inf, -inf) are no numbers.
PriceWritten ==
    [ c \in { T3("9", ".", "5"), T2("2", "5"),
              << "5", "0", "0", ".", "0", "1" >>, << "0", ".", "1", "2", "5" >>,
              T1("0"), << "0", ".", "0", "0" >>, << "-", "4", ".", "2", "5" >> } |->
        CASE c = T3("9", ".", "5") -> 9500
          [] c = T2("2", "5") -> 25000
          [] c = << "5", "0", "0", ".", "0", "1" >> -> 500010
          [] c = << "0", ".", "1", "2", "5" >> -> 125
          [] c = T1("0") -> 0
          [] c = << "0", ".", "0", "0" >> -> 0
          [] c = << "-", "4", ".", "2", "5" >> -> -4250 ]

\* The row reached the unit_price check.
PriceChecked ==
    /\ QuantityChecked
    /\ v_row["quantity"] \in DOMAIN QuantityWritten

\* C15: an absent or empty unit_price is 0.0 and does not reject the row; a
\* text that is no number rejects it with invalid_price_type; a negative price
\* becomes 0.0 with negative_price; a price of zero (the absent and empty ones
\* included) is kept with zero_price; so every cleaned row has a unit_price
\* that is a number >= 0.
C15_UnitPrice ==
    /\ PriceChecked =>
         IF Missing(v_row, "unit_price")
         THEN /\ v_out.issues # << "invalid_price_type" >>
              /\ v_out.ok => /\ v_out.cleaned["unit_price"] = 0
                             /\ "zero_price" \in Range(v_out.issues)
         ELSE IF v_row["unit_price"] \notin DOMAIN PriceWritten
         THEN /\ ~v_out.ok
              /\ v_out.issues = << "invalid_price_type" >>
         ELSE LET x == PriceWritten[v_row["unit_price"]] IN
              /\ v_out.issues # << "invalid_price_type" >>
              /\ v_out.ok =>
                   /\ v_out.cleaned["unit_price"] = IF x < 0 THEN 0 ELSE x
                   /\ "negative_price" \in Range(v_out.issues) <=> x < 0
                   /\ "zero_price" \in Range(v_out.issues) <=> x = 0
    /\ Accepted =>
         /\ v_out.cleaned["unit_price"] # NAN
         /\ v_out.cleaned["unit_price"] >= 0

\* The alerts of a row of this total (in thousandths) and this quantity:
\* high_value above 500.00, high_quantity above 20.
AlertsOf(total, quantity) ==
    ( IF total # NAN /\ total > 500000 THEN << "high_value" >> ELSE << >> ) \o
    ( IF quantity > 20 THEN << "high_quantity" >> ELSE << >> )

\* C16: detect_anomalies reports high_value exactly when the total is above
\* 500.00 and high_quantity exactly when the quantity is above 20, both when
\* both hold; it neither changes nor drops the row; and every row
\* run_transformation returns has the field anomaly_flags, the empty list when
\* there is no alert.
C16_Anomalies ==
    /\ pc = "v_flagged" =>
         v_alerts = AlertsOf(v_out.cleaned["total"], v_out.cleaned["quantity"])
    /\ ( RowTransformed /\ Accepted ) =>
         /\ t_out.exc = "none"
         /\ Len(t_out.rows) = 1
         /\ "anomaly_flags" \in DOMAIN t_out.rows[1]
         /\ t_out.rows[1]["anomaly_flags"] =
                AlertsOf(v_out.cleaned["total"], v_out.cleaned["quantity"])
         /\ \A k \in DOMAIN v_out.cleaned : t_out.rows[1][k] = v_out.cleaned[k]
         /\ t_out.anomaly_count =
                IF t_out.rows[1]["anomaly_flags"] = << >> THEN 0 ELSE 1

\* A row of 21 pieces at 25.00 got both alerts.
C16_Witness ==
    /\ pc = "v_flagged"
    /\ v_out.cleaned["quantity"] = 21
    /\ v_out.cleaned["total"] = 525000
    /\ v_alerts = << "high_value", "high_quantity" >>
    /\ t_out.rows[1]["anomaly_flags"] = v_alerts

\* The entries of the catalog given to run_transformation with this id.
CatalogEntries(pid) ==
    { i \in 1..Len(t_in.product_catalog) : t_in.product_catalog[i].product_id = pid }

\* C17: a returned row whose product_id is not in the catalog has
\* product_name and category UNKNOWN and current_stock -1, and its product_id
\* is in the set of missing products, which holds nothing else (so every id
\* once, however many rows have it); a row of a catalog product has the
\* product's name, category and stock; the set is reported once, after the
\* rows, and not at all when it is empty.
C17_Enrichment ==
    Transformed =>
        /\ \A i \in 1..Len(t_out.rows) :
             LET row == t_out.rows[i] IN
             IF CatalogEntries(row["product_id"]) = {}
             THEN /\ row["product_name"] = << "UNKNOWN" >>
                  /\ row["category"] = << "UNKNOWN" >>
                  /\ row["current_stock"] = -1
                  /\ row["product_id"] \in t_out.missing_products
             ELSE /\ row["product_id"] \notin t_out.missing_products
                  /\ \E e \in CatalogEntries(row["product_id"]) :
                       /\ row["product_name"] = t_in.product_catalog[e].name
                       /\ row["category"] = t_in.product_catalog[e].category
                       /\ row["current_stock"] = t_in.product_catalog[e].stock
        /\ \A pid \in t_out.missing_products :
             \E i \in 1..Len(t_out.rows) : t_out.rows[i]["product_id"] = pid
        /\ t_out.missing_reports = IF t_out.missing_products = {} THEN 0 ELSE 1

\* Two returned rows are of the same unknown product, which is in the set
\* once and was reported once.
C17_Witness ==
    /\ Transformed
    /\ Len(t_out.rows) >= 2
    /\ t_out.rows[1]["product_id"] = T1("P9")
    /\ t_out.rows[2]["product_id"] = T1("P9")
    /\ t_out.missing_products = { T1("P9") }
    /\ t_out.missing_reports = 1


\* C18: run_transformation never fails because of the data in the rows: when
\* it has returned or raised, it raised only if the extracted-data mapping
\* lacks one of the source keys sales_data and product_catalog.
C18_NeverFailsOnRows ==
    pc = "t_done" =>
        (t_out.exc # "none" =>
            { "sales_data", "product_catalog" } \ DOMAIN t_in # {})

\* The sum of the counts of a histogram over the keys in S.
RECURSIVE SumCounts(_, _)
SumCounts(f, S) ==
    IF S = {} THEN 0
    ELSE LET x == CHOOSE y \in S : TRUE IN f[x] + SumCounts(f, S \ { x })

\* The reasons for which validate_row rejects a row.
RejectionReasons ==
    { "missing_order_id", "missing_product_id", "invalid_quantity_type",
      "invalid_price_type", "unparseable_date" }

\* The positions of the raw rows that validate_row accepts, and rejects.
AcceptedAt == { j \in 1..Len(t_in.sales_data) : validate_row(t_in.sales_data[j], j).ok }
RejectedAt == { j \in 1..Len(t_in.sales_data) : ~validate_row(t_in.sales_data[j], j).ok }

\* rows_in = rows_rejected + duplicate_count + rows_out, and anomaly_count is
\* the number of output rows with a non-empty anomaly_flags.
AccountingBalances ==
    /\ t_out.rows_in = Len(t_in.sales_data)
    /\ t_out.skipped_rows = Cardinality(RejectedAt)
    /\ t_out.rows_in = t_out.skipped_rows + t_out.duplicate_count + Len(t_out.rows)
    /\ t_out.anomaly_count =
         Cardinality({ i \in 1..Len(t_out.rows) : t_out.rows[i]["anomaly_flags"] # << >> })
    /\ t_out.anomaly_count <= Len(t_out.rows)

\* C19 as stated: the accounting balances, and the histogram of
\* run_transformation is over the rejection reasons with counts that sum to
\* the number of rejected rows.
C19_RejectionHistogram ==
    Transformed =>
        /\ AccountingBalances
        /\ DOMAIN t_out.total_issues \subseteq RejectionReasons
        /\ SumCounts(t_out.total_issues, DOMAIN t_out.total_issues) = t_out.skipped_rows

\* C19, amended: the accounting balances, and the histogram of
\* run_transformation counts, for every auto-corrected issue, the accepted
\* rows that carry it (duplicates included); a rejected row adds nothing to it.
C19_Accounting ==
    Transformed =>
        /\ AccountingBalances
        /\ DOMAIN t_out.total_issues \cap RejectionReasons = {}
        /\ \A x \in { "missing_email", "invalid_quantity", "negative_price", "zero_price" } :
             LET n == Cardinality({ j \in AcceptedAt :
                        x \in Range(validate_row(t_in.sales_data[j], j).issues) })
             IN IF n = 0 THEN x \notin DOMAIN t_out.total_issues
                ELSE x \in DOMAIN t_out.total_issues /\ t_out.total_issues[x] = n

C19_Witness ==
    /\ Transformed
    /\ t_out.skipped_rows = 1
    /\ t_out.duplicate_count = 1
    /\ Len(t_out.rows) = 1
    /\ t_out.total_issues # << >>
    /\ SumCounts(t_out.total_issues, DOMAIN t_out.total_issues) # t_out.skipped_rows



\* The batches of a list, one after the other.
RECURSIVE Concatenation(_)
Concatenation(bs) ==
    IF bs = << >> THEN << >>
    ELSE Concatenation(SubSeq(bs, 1, Len(bs) - 1)) \o bs[Len(bs)]

\* run_loading has made its batches.
Batched == pc \in { "l_loop", "l_commit", "l_close", "l_done" }

\* C20: run_loading cuts the record list into consecutive batches of
\* BATCH_SIZE records: every batch but the last has exactly BATCH_SIZE
\* records, the last has between 1 and BATCH_SIZE, the batches put one after
\* the other give the input list, their number is ceil(n / BATCH_SIZE), and
\* an empty list gives no batch and the result (0, 0).
C20_Batching ==
    Batched =>
        LET n == Len(load_in)
            count == Len(batches)
        IN /\ \A k \in 1..(count - 1) : Len(batches[k]) = BATCH_SIZE
           /\ count > 0 => Len(batches[count]) \in 1..BATCH_SIZE
           /\ Concatenation(batches) = load_in
           /\ count * BATCH_SIZE >= n
           /\ (count - 1) * BATCH_SIZE < n \/ (count = 0 /\ n = 0)
           /\ n = 0 => count = 0
           /\ (n = 0 /\ pc = "l_done") => load_ret = << 0, 0 >>

C20_Witness ==
    /\ pc = "l_done"
    /\ Len(load_in) = 2 * BATCH_SIZE + 1
    /\ Len(batches) = 3
    /\ Len(batches[3]) = 1
    /\ batch_num = 4



----------------------------------------------------------------------------
(* Properties of run_loading and load_batch on rows already in the store *)

\* The batches that run_loading committed, and the places of their records in
\* the list it was given.
CommittedBatches ==
    { load_log[i].batch : i \in { j \in 1..Len(load_log) : load_log[j].op = "commit" } }

CommittedPositions ==
    { p \in 1..Len(load_in) : ((p - 1) \div BATCH_SIZE) + 1 \in CommittedBatches }

\* The order_id of record p is in the store when the record is inserted: from
\* an earlier run, or from an earlier record of the list.
SeenBefore(p) ==
    \/ HasKey(db0, load_in[p]["order_id"])
    \/ \E q \in 1..(p - 1) : load_in[q]["order_id"] = load_in[p]["order_id"]

\* C21: a record whose order_id is already in the store is skipped and
\* counted, the stored row stays as it was and nothing fails: the other
\* records of the batch are inserted, the batch is committed, and on return
\* inserted + skipped is the number of records of the committed batches.
C21_DuplicateSkipped ==
    /\ pc = "l_done" =>
         /\ load_ret[1] + load_ret[2] = Cardinality(CommittedPositions)
         /\ load_ret[2] = Cardinality({ p \in CommittedPositions : SeenBefore(p) })
         /\ db0 \subseteq db
         /\ \A r1, r2 \in db : r1.order_id = r2.order_id => r1 = r2
         /\ \A p \in CommittedPositions :
              ~SeenBefore(p) => StoredRow(load_in[p]) \in db
    /\ (pc = "l_raised" /\ conn = "open") =>
         \E k \in 1..Len(batches[batch_num]) :
             RequiredKeys \ DOMAIN batches[batch_num][k] # {}

C21_Witness ==
    /\ pc = "l_done"
    /\ db0 # {}
    /\ \E p \in CommittedPositions :
         /\ SeenBefore(p)
         /\ ~HasKey(db0, load_in[p]["order_id"])
         /\ StoredRow(load_in[p]) \notin db
         /\ p + 1 \in CommittedPositions
         /\ (p \div BATCH_SIZE) = ((p - 1) \div BATCH_SIZE)
         /\ ~SeenBefore(p + 1)
         /\ StoredRow(load_in[p + 1]) \in db
    /\ \E p \in CommittedPositions : HasKey(db0, load_in[p]["order_id"])



----------------------------------------------------------------------------
(* Properties of run_pipeline: the statistics of a run *)

\* The raw rows of the primary source that validate_row accepts, and the
\* number of different order_ids among them: N - r - d.
ValidRawAt ==
    { j \in 1..Len(results.sales_data) : validate_row(results.sales_data[j], j).ok }

CleanCount ==
    Cardinality({ validate_row(results.sales_data[j], j).cleaned["order_id"] :
                    j \in ValidRawAt })

\* The run came to its loading stage, the database was opened, and every
\* cleaned row has the columns load_batch reads.
LoadingAttempted ==
    /\ started = StageOrder
    /\ conn # "none"
    /\ \A i \in 1..Len(cleaned_rows) : RequiredKeys \subseteq DOMAIN cleaned_rows[i]

\* C22: a run on an empty store, whose primary source gives N raw rows of
\* which r are rejected and d are duplicates, with N - r - d <= BATCH_SIZE,
\* ends completed with extracted = N, transformed = loaded = N - r - d,
\* skipped = 0, errors = 0 and no phase_failed.
C22_EndToEndCounts ==
    ( Terminal /\ db0 = {} /\ LoadingAttempted /\ CleanCount <= BATCH_SIZE ) =>
        /\ pc = "completed"
        /\ stats = [ extracted |-> Len(results.sales_data),
                     transformed |-> CleanCount,
                     loaded |-> CleanCount,
                     skipped |-> 0,
                     errors |-> 0,
                     phase_failed |-> "None" ]



\* The raw rows of the primary source that have an order_id and a product_id
\* and lack the quantity: no such column, no such field in the line, or an
\* empty field.
LackQuantityAt ==
    { j \in 1..Len(results.sales_data) :
        LET row == results.sales_data[j] IN
        /\ Truthy(Get(row, "order_id"))
        /\ Truthy(Get(row, "product_id"))
        /\ Missing(row, "quantity") }

\* C23: a row of the sales CSV that lacks the quantity is rejected with
\* invalid_quantity_type, without a correction and without an exception; the
\* transformation returns the remaining rows and the run does not fail for it:
\* it completes with these rows transformed and loaded and no phase_failed.
C23_MissingQuantityRejected ==
    ( "transformation" \in Range(started) /\ LackQuantityAt # {} ) =>
        /\ \A j \in LackQuantityAt :
             validate_row(results.sales_data[j], j) = Rejected("invalid_quantity_type")
        /\ stats.phase_failed # "transformation"
        /\ Len(cleaned_rows) = CleanCount
        /\ Terminal =>
             /\ stats.phase_failed \in { "None", "loading" }
             /\ stats.transformed = CleanCount
             /\ (pc = "completed" /\ LostAt = 0) =>
                    stats.loaded + stats.skipped = CleanCount



\* C24: when the run has ended, completed or failed, its statistics hold the
\* true counts of the stages it went through: extracted is the number of rows
\* read from the primary source, transformed the number of rows
\* run_transformation returned, loaded and skipped the numbers of rows this
\* run inserted into and skipped in the store; phase_failed is the stage that
\* failed, or None.
C24_TrueCounts ==
    Terminal =>
        /\ stats.extracted = Len(results.sales_data)
        /\ stats.transformed = Len(cleaned_rows)
        /\ stats.loaded = Cardinality(db \ db0)
        /\ stats.skipped = Cardinality(CommittedPositions) - Cardinality(db \ db0)
        /\ stats.phase_failed = IF pc = "failed" THEN started[Len(started)] ELSE "None"



----------------------------------------------------------------------------
(* Properties of enrich_with_products within run_transformation *)

\* The rows that reach enrich_with_products, before their anomaly_flags: the
\* cleaned row of the first accepted raw row of each order_id among the first
\* n raw rows, in the order of the raw rows.
RECURSIVE FirstValid(_)
FirstValid(n) ==
    IF n = 0 THEN << >>
    ELSE LET before == FirstValid(n - 1)
             v == validate_row(t_in.sales_data[n], n)
         IN IF v.ok /\ \A i \in 1..Len(before) :
                           before[i]["order_id"] # v.cleaned["order_id"]
            THEN Append(before, v.cleaned)
            ELSE before

EnrichedFields == { "product_name", "category", "current_stock" }

\* The rows returned are the rows given, each with its anomaly_flags and the
\* three fields of the enrichment, taken from the catalog for a product of it.
EnrichedFrom(rows, given) ==
    /\ Len(rows) = Len(given)
    /\ \A i \in 1..Len(rows) :
         LET row == rows[i]
             c == given[i]
         IN /\ DOMAIN row = DOMAIN c \cup { "anomaly_flags" } \cup EnrichedFields
            /\ \A k \in DOMAIN c : row[k] = c[k]
            /\ row["anomaly_flags"] = AlertsOf(c["total"], c["quantity"])
            /\ \A e \in CatalogEntries(row["product_id"]) :
                 /\ row["product_name"] = t_in.product_catalog[e].name
                 /\ row["category"] = t_in.product_catalog[e].category
                 /\ row["current_stock"] = t_in.product_catalog[e].stock

\* C25: for a record whose product_id is in the catalog, product_name,
\* category and current_stock are the name, category and stock of that
\* catalog entry; no other field of a record is changed by the enrichment,
\* with or without a low stock; and the records returned are as many as, and
\* in the order of, the records given.
C25_EnrichFrame ==
    Transformed => EnrichedFrom(t_out.rows, FirstValid(Len(t_in.sales_data)))

\* Two records were returned in the order given, the first of a product with
\* a low stock, the second of another product; the raw row between them was
\* rejected or a second row of an order.
C25_Witness ==
    /\ Transformed
    /\ Len(t_out.rows) = 2
    /\ Len(t_in.sales_data) = 3
    /\ validate_row(t_in.sales_data[1], 1).ok
    /\ validate_row(t_in.sales_data[3], 3).ok
    /\ t_out.rows[1]["current_stock"] \in 0..(LOW_STOCK_THRESHOLD - 1)
    /\ t_out.rows[1]["product_name"] = << "Pen" >>
    /\ t_out.rows[2]["product_id"] # t_out.rows[1]["product_id"]



----------------------------------------------------------------------------
(* Properties of the simulated connection failure of run_loading *)

\* The order_id of record p of the list is in the store.
Stored(p) == HasKey(db, load_in[p]["order_id"])

\* C26: the simulated connection failure happens at the last batch only and
\* before load_batch is called for that batch; so when run_loading returns,
\* the batches before the last were all loaded and committed and their records
\* are in the store, only records of the last batch can be missing from it,
\* and a run without a batch has no failure and returns.
C26_FailureAtLastBatchOnly ==
    /\ \A i \in 1..Len(load_log) :
         load_log[i].op = "connection_lost" =>
            /\ load_log[i].batch = Len(batches)
            /\ \A j \in 1..Len(load_log) :
                 load_log[j].op = "load_batch" => load_log[j].batch # load_log[i].batch
    /\ (pc = "l_close" /\ LostAt # 0) => txn = {}
    /\ pc = "l_done" =>
         /\ 1..(Len(batches) - 1) \subseteq CommittedBatches
         /\ LostAt \in { 0, Len(batches) }
         /\ \A p \in 1..Len(load_in) :
              ~Stored(p) => /\ LostAt = Len(batches)
                            /\ ((p - 1) \div BATCH_SIZE) + 1 = Len(batches)
    /\ (Batched /\ batches = << >>) =>
         /\ load_log = << >>
         /\ pc \in { "l_loop", "l_done" }

\* Of three batches the first two were committed and the connection was lost
\* at the third, whose records are not in the store.
C26_Witness ==
    /\ pc = "l_done"
    /\ Len(batches) = 3
    /\ LostAt = 3
    /\ CommittedBatches = { 1, 2 }
    /\ \A p \in 1..(2 * BATCH_SIZE) : Stored(p)
    /\ ~Stored(2 * BATCH_SIZE + 1)



----------------------------------------------------------------------------
(* The run of run_pipeline as a function of what is not the API *)

\* What the files give, with no record of the API.
SourcesWithoutApi ==
    [ sales_data |-> extract_csv(csv_file).ret,
      product_catalog |-> extract_json(json_file, "products").ret,
      api_data |-> << >> ]

\* The first place of rows with a row that lacks a column load_batch reads,
\* 0 when there is none.
FirstLacking(rows) ==
    IF \E p \in 1..Len(rows) : RequiredKeys \ DOMAIN rows[p] # {}
    THEN CHOOSE p \in 1..Len(rows) :
            /\ RequiredKeys \ DOMAIN rows[p] # {}
            /\ \A q \in 1..(p - 1) : RequiredKeys \subseteq DOMAIN rows[q]
    ELSE 0

\* The statistics and the store at the end of the run, from the two files, the
\* store before the run, whether the database could be opened (opened) and
\* the batch at which the connection was lost (lost, 0 for none).
OutcomeWithoutApi(opened, lost) ==
    LET src == SourcesWithoutApi
        n == Len(src.sales_data)
        t == run_transformation(src)
    IN IF extract_json(json_file, "products").outcome = "raised" \/ n = 0
       THEN [ stats |-> StageFailed(InitialStats, "extraction"),
              rows |-> << >>, db |-> db0 ]
       ELSE IF t.exc # "none"
       THEN [ stats |-> StageFailed([ InitialStats EXCEPT !.extracted = n ],
                                    "transformation"),
              rows |-> << >>, db |-> db0 ]
       ELSE
       LET st == [ InitialStats EXCEPT !.extracted = n, !.transformed = Len(t.rows) ]
           bad == FirstLacking(t.rows)
           badBatch == IF bad = 0 THEN 0 ELSE ((bad - 1) \div BATCH_SIZE) + 1
           raised == bad # 0 /\ (lost = 0 \/ badBatch < lost)
           upto == IF raised THEN (badBatch - 1) * BATCH_SIZE
                   ELSE IF lost # 0 THEN (lost - 1) * BATCH_SIZE
                   ELSE Len(t.rows)
           l == load_batch(db0, SubSeq(t.rows, 1, upto))
       IN IF ~opened
          THEN [ stats |-> StageFailed(st, "loading"), rows |-> t.rows, db |-> db0 ]
          ELSE IF raised
          THEN [ stats |-> StageFailed(st, "loading"), rows |-> t.rows, db |-> l.store ]
          ELSE [ stats |-> [ st EXCEPT !.loaded = l.inserted, !.skipped = l.skipped ],
                 rows |-> t.rows, db |-> l.store ]

\* C27: the result of the run does not depend on the API: the final
\* statistics, the rows transformed and the store are those given by the two
\* files, the store before the run and the course of the loading, whatever
\* the attempts on the API returned; no API record is transformed or loaded.
C27_ApiIndependent ==
    Terminal =>
        LET o == OutcomeWithoutApi(conn # "none", LostAt) IN
        /\ stats = o.stats
        /\ cleaned_rows = o.rows
        /\ db = o.db

\* A run completed and loaded a row although every attempt on the API failed.
C27_Witness ==
    /\ pc = "completed"
    /\ Len(api_log) > 0
    /\ api_ret = << >>
    /\ results.api_data = << >>
    /\ stats.loaded >= 1



----------------------------------------------------------------------------
(* Validation before deduplication in run_transformation *)

\* The accepted raw row j is the first accepted row of its order_id, after a
\* rejected row with the same order_id.
FirstValidAfterRejected(j) ==
    /\ j \in AcceptedAt
    /\ \E q \in 1..(j - 1) :
         /\ q \notin AcceptedAt
         /\ Get(t_in.sales_data[q], "order_id") = t_in.sales_data[j]["order_id"]
    /\ \A q \in 1..(j - 1) :
         q \in AcceptedAt =>
            t_in.sales_data[q]["order_id"] # t_in.sales_data[j]["order_id"]

\* C28: check_duplicates sees the accepted rows only, so the row kept for an
\* order_id is its first accepted row: when the first raw row of an order is
\* rejected and a later one is accepted, the later row is returned and is not
\* counted as a duplicate (only accepted rows that are not returned are).
C28_FirstValidKept ==
    Transformed =>
        /\ \A j \in 1..Len(t_in.sales_data) :
             FirstValidAfterRejected(j) =>
                \E i \in 1..Len(t_out.rows) : CleanedFrom(t_out.rows[i], j)
        /\ t_out.duplicate_count = Cardinality(AcceptedAt) - Len(t_out.rows)

\* Order A came three times: its first row was rejected, its second row was
\* returned, its third row was the only duplicate.
C28_Witness ==
    /\ Transformed
    /\ Len(t_in.sales_data) = 3
    /\ \A j \in 1..3 : Get(t_in.sales_data[j], "order_id") = T1("A")
    /\ AcceptedAt = { 2, 3 }
    /\ FirstValidAfterRejected(2)
    /\ Len(t_out.rows) = 1
    /\ CleanedFrom(t_out.rows[1], 2)
    /\ t_out.rows[1]["customer_name"] # t_in.sales_data[3]["customer_name"]
    /\ t_out.duplicate_count = 1



----------------------------------------------------------------------------
(* The error count and the failed stage of run_pipeline *)

\* The counters that the stage and the stages after it assign.
CountersFrom(stage) ==
    IF stage = "extraction" THEN { "extracted", "transformed", "loaded", "skipped" }
    ELSE IF stage = "transformation" THEN { "transformed", "loaded", "skipped" }
    ELSE { "loaded", "skipped" }

ErrorsMatchFailure ==
    /\ stats.errors \in { 0, 1 }
    /\ stats.errors = 1 <=> stats.phase_failed # "None"
    /\ stats.phase_failed # "None" =>
         /\ stats.phase_failed \in Range(StageOrder)
         /\ \A c \in CountersFrom(stats.phase_failed) : stats[c] = 0

FailureIsFinal == stats.phase_failed # "None" => stats' = stats

\* C29: in every state of a run errors is 0 or 1, and 1 exactly when
\* phase_failed is set; phase_failed, once set, is neither set again nor
\* cleared; and after a failure the counters of the failed stage and of the
\* stages after it are still 0.
C29_ErrorsAndPhase == []ErrorsMatchFailure /\ [][FailureIsFinal]_vars

\* The run failed in its loading stage after an extraction and a
\* transformation that are counted.
C29_Witness ==
    /\ pc = "failed"
    /\ stats.phase_failed = "loading"
    /\ stats.errors = 1
    /\ stats.extracted >= 1
    /\ stats.transformed >= 1
    /\ stats.loaded = 0
    /\ stats.skipped = 0



----------------------------------------------------------------------------
(* Properties of a second call of run_loading *)

UniqueOrderIds ==
    \A p, q \in 1..Len(load_in) :
        p # q => load_in[p]["order_id"] # load_in[q]["order_id"]

\* Both calls of run_loading returned, without a lost connection.
LoadedTwice ==
    /\ l_run = 2
    /\ pc = "l_done"
    /\ ~l_first.lost
    /\ LostAt = 0

\* C30: when run_loading has returned without a failure for a list of unique
\* order_ids and returns without a failure a second time for the same list on
\* the same store, the second call inserts nothing, skips every record and
\* leaves the store as the first call left it.
C30_LoadIdempotent ==
    ( LoadedTwice /\ UniqueOrderIds ) =>
        /\ load_ret = << 0, Len(load_in) >>
        /\ db = l_first.db

\* A list of three batches was loaded twice; the first call inserted rows of
\* more than one batch and skipped a row of an earlier run.
C30_Witness ==
    /\ LoadedTwice
    /\ UniqueOrderIds
    /\ Len(batches) = 3
    /\ l_first.ret[1] > BATCH_SIZE
    /\ l_first.ret[2] >= 1
    /\ load_ret = << 0, Len(load_in) >>


====
